---- MODULE Spec2Model ----
(***************************************************************************)
(* Verification model of the talent-sourcing chatbot                        *)
(* (src/talent_scraper_chatbot.py) and of the standalone multi-agent        *)
(* script (src/LearningStuff-ignore/LearningTask.py).                       *)
(*                                                                          *)
(* Python strings that the code inspects (substring tests, startswith) are  *)
(* sequences of one-character strings.  Skill labels are only compared for  *)
(* equality after lower-casing, so they are atomic strings with a           *)
(* lower-casing table.                                                      *)
(***************************************************************************)
EXTENDS Integers, Sequences, FiniteSets, TLC

VARIABLES
    profile,        \* scorer input: [skills, url, rating, experience]
    risk,           \* scorer outputs and the set of scorers that have run
    text,           \* user request text handed to the requirement extractor
    requirements,   \* result of _decompose_requirements, NoRequirements before
    talent_profiles,\* list of Talent handed to the ranker; id is the object identity
    ranking,        \* [done, top_talent]: result of _rank_and_filter_talent
    search_queries, \* executor: the query list it was called with
    qi,             \* executor: 1-based index of the query of this iteration
    all_results,    \* executor: the aggregate built so far
    responses,      \* what the provider did on each call so far
    events,         \* provider calls and pauses of the executor, in order
    exec_pc,        \* executor: "idle", "loop", "sleeping", "done"
    chat_pc,        \* chat(): "idle", "intent", "search", "format", "general", "done"
    user_message,   \* chat(): the message of the request
    conversation_history, \* the shared history log
    search_intent,  \* chat(): the dictionary returned by _analyze_search_intent
    talent_results, \* chat(): the list awaiting the formatting call
    response,       \* chat(): the ChatbotResponse returned
    search_results, \* extractor: the result list it was called with
    extract_pc,     \* extractor: "idle", "done"
    raw_search_results,   \* standalone script: state["raw_search_results"]["results"]
    evaluated_developers, \* standalone script: state["evaluated_developers"]
    final_recommendations,\* standalone script: state["final_recommendations"]
    current_step,   \* standalone script: state["current_step"]
    calls,          \* talent API: the requests in flight on the shared chatbot
    requests,       \* simplifier: the requests in flight
    explanation_cache, \* simplifier API: the module's explanation_cache
    service_cache   \* SimplifierService.cache
standaloneVars == <<raw_search_results, evaluated_developers, final_recommendations, current_step>>
simplifierVars == <<requests, explanation_cache, service_cache>>
serviceVars == <<calls, simplifierVars>>
scoreVars == <<profile, risk, standaloneVars, serviceVars>>
reqVars == <<text, requirements>>
rankVars == <<talent_profiles, ranking, search_results, extract_pc>>
execVars == <<search_queries, qi, all_results, responses, events, exec_pc>>
chatVars == <<chat_pc, user_message, conversation_history, search_intent,
              talent_results, response>>

vars == <<scoreVars, reqVars, rankVars, execVars, chatVars>>

(***************************************************************************)
(* Generic helpers                                                          *)
(***************************************************************************)
Max(a, b) == IF a >= b THEN a ELSE b
Min(a, b) == IF a <= b THEN a ELSE b

Range(s) == {s[i] : i \in 1..Len(s)}

Prefix(s, n) == SubSeq(s, 1, Min(n, Len(s)))

\* Python `sub in s` on strings
Contains(s, sub) ==
    \E i \in 0..(Len(s) - Len(sub)) : SubSeq(s, i + 1, i + Len(sub)) = sub

\* Python s.startswith(p)
StartsWith(s, p) == Len(s) >= Len(p) /\ SubSeq(s, 1, Len(p)) = p

Digits == <<"0", "1", "2", "3", "4", "5", "6", "7", "8", "9">>

IsDigit(c) == c \in Range(Digits)

DigitValue(c) == CHOOSE d \in 0..9 : Digits[d + 1] = c

\* Python int(s) for a non-empty string of decimal digits
RECURSIVE StrToInt(_)
StrToInt(s) ==
    IF Len(s) = 0 THEN 0
    ELSE 10 * StrToInt(SubSeq(s, 1, Len(s) - 1)) + DigitValue(s[Len(s)])

UpperLetters == <<"A","B","C","D","E","F","G","H","I","J","K","L","M","N","O","P","Q","R","S","T","U","V","W","X","Y","Z">>
LowerLetters == <<"a","b","c","d","e","f","g","h","i","j","k","l","m","n","o","p","q","r","s","t","u","v","w","x","y","z">>

LowerChar(c) ==
    IF c \in Range(UpperLetters)
    THEN LowerLetters[CHOOSE i \in 1..26 : UpperLetters[i] = c]
    ELSE c

\* Python s.lower()
Lower(s) == [i \in 1..Len(s) |-> LowerChar(s[i])]

\* Python str(n) for n >= 0
RECURSIVE IntToStr(_)
IntToStr(n) ==
    IF n < 10 THEN <<Digits[n + 1]>>
    ELSE IntToStr(n \div 10) \o <<Digits[(n % 10) + 1]>>

\* Python int(x) for x given in halves (x = h/2): truncation toward zero
IntTruncMutant(h) == (h + 1) \div 2

IntTrunc(h) == IF h >= 0 THEN h \div 2 ELSE -((-h) \div 2)

\* Python round(x) for x given in halves (x = h/2): round half to even
RoundHalfEven(h) ==
    IF h % 2 = 0 THEN h \div 2
    ELSE LET lo == (h - 1) \div 2 IN IF lo % 2 = 0 THEN lo ELSE lo + 1

(***************************************************************************)
(* String constants of the source                                           *)
(***************************************************************************)
NotSpecified == <<"N","o","t"," ","s","p","e","c","i","f","i","e","d">>
Unknown == <<"U","n","k","n","o","w","n">>
UpworkDomain == <<"u","p","w","o","r","k",".","c","o","m">>
LinkedinDomain == <<"l","i","n","k","e","d","i","n",".","c","o","m">>
YearsSuffix == <<" ","y","e","a","r","s">>
OutOfFive == <<"/","5">>

\* skill vocabulary of the chatbot extractor
skill_patterns ==
    <<"React", "Node.js", "Python", "JavaScript", "MongoDB", "Express",
      "AI", "Machine Learning", "DevOps", "AWS", "Docker", "TypeScript",
      "Full Stack", "Frontend", "Backend", "Mobile", "Flutter">>

\* skill vocabulary of the standalone extractor (mern_skills + ai_skills)
standalone_skills ==
    <<"MongoDB", "Express", "React", "Node", "JavaScript", "Full Stack",
      "AI", "Machine Learning", "Deep Learning", "TensorFlow", "PyTorch", "NLP">>

(***************************************************************************)
(* Risk scorers.  Scores are kept in halves while they are adjusted         *)
(* (3 is 6 halves, 0.5 is one half) so that the .5 steps are exact.         *)
(***************************************************************************)
\* _extract_profile_data, "Calculate risk score" block
\* risk_score just before max(1, min(5, int(risk_score))), in halves
ChatbotRawHalves(found_skills, url, rating, experience) ==
    LET h0 == 6
        h1 == IF Len(found_skills) >= 5 THEN h0 - 2 ELSE h0
        h2 == IF Contains(url, UpworkDomain) \/ Contains(url, LinkedinDomain)
              THEN h1 - 1 ELSE h1
        h3 == IF rating # NotSpecified THEN h2 - 1 ELSE h2
    IN  IF Contains(experience, NotSpecified) THEN h3 + 2 ELSE h3

ChatbotRiskMutant(found_skills, url, rating, experience) ==
    LET h0 == 6
        h1 == IF Len(found_skills) >= 8 THEN h0 - 2 ELSE h0
        h2 == IF Contains(url, UpworkDomain) \/ Contains(url, LinkedinDomain)
              THEN h1 - 1 ELSE h1
        h3 == IF rating # NotSpecified THEN h2 - 1 ELSE h2
        h4 == IF Contains(experience, NotSpecified) THEN h3 + 2 ELSE h3
    IN  Max(1, Min(5, IntTrunc(h4)))

ChatbotRiskScore(found_skills, url, rating, experience) ==
    Max(1, Min(5, IntTrunc(ChatbotRawHalves(found_skills, url, rating, experience))))

\* calculate_risk_score
GoodExperienceDigits == {"3", "4", "5", "6", "7", "8", "9"}

\* the adjustments before "Missing information", in halves
StandaloneBaseHalves(p) ==
    LET n  == Len(p.skills)
        h0 == 6
        h1 == IF n >= 6 THEN h0 - 2 ELSE h0
        h2 == IF "AI" \in Range(p.skills) \/ "Machine Learning" \in Range(p.skills)
              THEN h1 - 2 ELSE h1
        h3 == IF StartsWith(p.rating, <<"4">>) \/ StartsWith(p.rating, <<"5">>)
              THEN h2 - 1 ELSE h2
        h4 == IF \E d \in GoodExperienceDigits : Contains(p.experience, <<d>>)
              THEN h3 - 1 ELSE h3
    IN  IF n < 3 THEN h4 + 2 ELSE h4

\* "Unknown" in [profile.get("experience", ""), profile.get("rating", "")]
MissingInformation(p) == Unknown \in {p.experience, p.rating}

\* risk_score just before "Ensure score is within bounds", in halves
StandaloneRawHalves(p) ==
    IF MissingInformation(p) THEN StandaloneBaseHalves(p) + 1 ELSE StandaloneBaseHalves(p)

StandaloneRiskMutant(p) == Min(5, RoundHalfEven(StandaloneRawHalves(p)))

calculate_risk_score(p) == Max(1, Min(5, RoundHalfEven(StandaloneRawHalves(p))))

(***************************************************************************)
(* Requirement extractor: _decompose_requirements                           *)
(***************************************************************************)
tech_keywords ==
    <<[key |-> <<"r","e","a","c","t">>,
       skills |-> <<"React", "ReactJS", "Frontend">>],
      [key |-> <<"n","o","d","e">>,
       skills |-> <<"Node.js", "NodeJS", "Backend">>],
      [key |-> <<"p","y","t","h","o","n">>,
       skills |-> <<"Python", "Django", "Flask">>],
      [key |-> <<"j","a","v","a","s","c","r","i","p","t">>,
       skills |-> <<"JavaScript", "JS", "Frontend">>],
      [key |-> <<"m","o","n","g","o","d","b">>,
       skills |-> <<"MongoDB", "NoSQL", "Database">>],
      [key |-> <<"e","x","p","r","e","s","s">>,
       skills |-> <<"Express.js", "ExpressJS">>],
      [key |-> <<"a","i">>,
       skills |-> <<"AI", "Machine Learning", "Deep Learning">>],
      [key |-> <<"f","u","l","l","s","t","a","c","k">>,
       skills |-> <<"Full Stack", "Full-Stack", "Fullstack">>],
      [key |-> <<"m","e","r","n">>,
       skills |-> <<"MERN", "MongoDB", "Express", "React", "Node">>],
      [key |-> <<"d","e","v","o","p","s">>,
       skills |-> <<"DevOps", "AWS", "Docker", "Kubernetes">>],
      [key |-> <<"m","o","b","i","l","e">>,
       skills |-> <<"React Native", "Flutter", "iOS", "Android">>]>>

seniority_map ==
    <<[key |-> <<"j","u","n","i","o","r">>, level |-> "Junior"],
      [key |-> <<"m","i","d">>, level |-> "Mid"],
      [key |-> <<"s","e","n","i","o","r">>, level |-> "Senior"],
      [key |-> <<"l","e","a","d">>, level |-> "Lead"],
      [key |-> <<"p","r","i","n","c","i","p","a","l">>, level |-> "Principal"],
      [key |-> <<"e","n","t","r","y">>, level |-> "Junior"],
      [key |-> <<"e","x","p","e","r","i","e","n","c","e","d">>, level |-> "Senior"],
      [key |-> <<"e","x","p","e","r","t">>, level |-> "Senior"]>>

\* re.search(r'(\d+)', s): the leftmost maximal run of digits, <<>> if none
FirstDigitRun(s) ==
    IF \A i \in 1..Len(s) : ~IsDigit(s[i]) THEN <<>>
    ELSE LET start == CHOOSE i \in 1..Len(s) :
                          IsDigit(s[i]) /\ \A j \in 1..(i - 1) : ~IsDigit(s[j])
             stop  == CHOOSE j \in start..Len(s) :
                          /\ \A m \in start..j : IsDigit(s[m])
                          /\ (j = Len(s) \/ ~IsDigit(s[j + 1]))
         IN  SubSeq(s, start, stop)

\* "quantity = int(quantity_match.group(1)) if quantity_match else 5"
ExtractQuantity(user_input) ==
    LET run == FirstDigitRun(user_input)
    IN  IF run = <<>> THEN 5 ELSE StrToInt(run)

\* the labels of every keyword contained in the lower-cased text
FirstKeywordSkills(user_lower) ==
    LET hits == {j \in 1..Len(tech_keywords) : Contains(user_lower, tech_keywords[j].key)}
    IN  IF hits = {} THEN {}
        ELSE Range(tech_keywords[CHOOSE i \in hits : \A j \in hits : i <= j].skills)

ExtractedSkills(user_lower) ==
    UNION {Range(tech_keywords[i].skills) :
               i \in {j \in 1..Len(tech_keywords) :
                          Contains(user_lower, tech_keywords[j].key)}}

\* first entry of seniority_map, in table order, whose key is in the text
ExtractedSeniority(user_lower) ==
    LET hits == {i \in 1..Len(seniority_map) :
                     Contains(user_lower, seniority_map[i].key)}
    IN  IF hits = {} THEN "Mid"
        ELSE seniority_map[CHOOSE i \in hits : \A j \in hits : i <= j].level

\* requirements["skills"] is list(set(...)): its order is the hash order of
\* the run, so the field is kept as a set and an order is chosen where one
\* is needed.
decompose_requirements(user_input) ==
    LET user_lower == Lower(user_input)
        extracted  == ExtractedSkills(user_lower)
    IN  [skills |-> IF extracted # {} THEN extracted
                    ELSE {"Software Development"},
         seniority |-> ExtractedSeniority(user_lower),
         quantity |-> Min(ExtractQuantity(user_input), 10),
         original_request |-> user_input]

NoRequirements ==
    [skills |-> {}, seniority |-> "", quantity |-> -1, original_request |-> <<>>]

MaxWords == 3           \* longest request text drawn, in words

RequestWords ==
    { <<"f","i","n","d">>, <<"R","e","a","c","t">>, <<"m","e","r","n">>,
      <<"S","e","n","i","o","r">>, <<"0">>, <<"2">>, <<"1","2">>, <<"v","7">> }

\* " ".join(words)
RECURSIVE JoinWords(_)
JoinWords(ws) ==
    IF Len(ws) = 0 THEN <<>>
    ELSE IF Len(ws) = 1 THEN ws[1]
    ELSE ws[1] \o <<" ">> \o JoinWords(Tail(ws))

RequestTexts ==
    {JoinWords(ws) : ws \in UNION {[1..n -> RequestWords] : n \in 0..MaxWords}}

(***************************************************************************)
(* IEEE-754 double arithmetic of the match score.                           *)
(*                                                                          *)
(* Every intermediate value of                                              *)
(*     risk*0.4 + max(0, 5 - overlap)*0.4 + max(0, 5 - total/2)*0.2         *)
(* is a whole number of tenths plus a rounding error of a few units in the  *)
(* last place.  A double is the pair <<T, k>> that stands for               *)
(*     T/10 + k*w     with w = 2^-56 / 10,                                  *)
(* which is exact: 0.4 is the double 0.4 + 16w and 0.2 is the double        *)
(* 0.2 + 8w.  Each operation computes the exact result and rounds it to     *)
(* the nearest double of its binade, ties to even, as the hardware does.    *)
(***************************************************************************)
\* binary exponent E with 2^E <= T/10 + k*w < 2^(E+1), for 1 <= T < 80
DoubleExponent(T, k) ==
    LET x16 == 16 * T + (IF k < 0 THEN -1 ELSE 0)
    IN  CHOOSE e \in -4..2 : 10 * 2^(e + 4) <= x16 /\ x16 < 10 * 2^(e + 5)

\* 2^n mod 20 for n >= 2
Pow2Mod20(n) ==
    CASE n % 4 = 2 -> 4
      [] n % 4 = 3 -> 8
      [] n % 4 = 0 -> 16
      [] n % 4 = 1 -> 12

\* round the exact value T/10 + k*w to the nearest double, ties to even
DoubleRound(T, k) ==
    IF T = 0 THEN <<0, 0>>
    ELSE LET E    == DoubleExponent(T, k)
             ulp  == 10 * 2^(E + 4)              \* one unit in the last place, in w
             pos2 == (2^(E + 4) * ((T * Pow2Mod20(52 - E)) % 20) + k) % (2 * ulp)
             rem  == pos2 % ulp
             odd  == pos2 >= ulp
         IN  IF 2 * rem < ulp THEN <<T, k - rem>>
             ELSE IF 2 * rem > ulp THEN <<T, k - rem + ulp>>
             ELSE IF odd THEN <<T, k - rem + ulp>>
             ELSE <<T, k - rem>>

\* n * 0.4 for an integer n >= 0
DoubleTimes04(n) == DoubleRound(4 * n, 16 * n)

\* (c2 / 2) * 0.2 for c2 >= 0 halves; c2/2 itself is exact
DoubleHalvesTimes02(c2) == DoubleRound(c2, 4 * c2)

DoubleAdd(a, b) == DoubleRound(a[1] + b[1], a[2] + b[2])

\* a < b on doubles: the rounding errors are far below one tenth
DoubleLess(a, b) == a[1] < b[1] \/ (a[1] = b[1] /\ a[2] < b[2])

SkillChars ==
    "AI" :> <<"A","I">> @@
    "AWS" :> <<"A","W","S">> @@
    "Android" :> <<"A","n","d","r","o","i","d">> @@
    "Backend" :> <<"B","a","c","k","e","n","d">> @@
    "Database" :> <<"D","a","t","a","b","a","s","e">> @@
    "Deep Learning" :> <<"D","e","e","p"," ","L","e","a","r","n","i","n","g">> @@
    "DevOps" :> <<"D","e","v","O","p","s">> @@
    "Django" :> <<"D","j","a","n","g","o">> @@
    "Docker" :> <<"D","o","c","k","e","r">> @@
    "Express" :> <<"E","x","p","r","e","s","s">> @@
    "Express.js" :> <<"E","x","p","r","e","s","s",".","j","s">> @@
    "ExpressJS" :> <<"E","x","p","r","e","s","s","J","S">> @@
    "Flask" :> <<"F","l","a","s","k">> @@
    "Flutter" :> <<"F","l","u","t","t","e","r">> @@
    "Frontend" :> <<"F","r","o","n","t","e","n","d">> @@
    "Full Stack" :> <<"F","u","l","l"," ","S","t","a","c","k">> @@
    "Full-Stack" :> <<"F","u","l","l","-","S","t","a","c","k">> @@
    "Fullstack" :> <<"F","u","l","l","s","t","a","c","k">> @@
    "JS" :> <<"J","S">> @@
    "JavaScript" :> <<"J","a","v","a","S","c","r","i","p","t">> @@
    "Kubernetes" :> <<"K","u","b","e","r","n","e","t","e","s">> @@
    "MERN" :> <<"M","E","R","N">> @@
    "Machine Learning" :> <<"M","a","c","h","i","n","e"," ","L","e","a","r","n","i","n","g">> @@
    "Mobile" :> <<"M","o","b","i","l","e">> @@
    "MongoDB" :> <<"M","o","n","g","o","D","B">> @@
    "NLP" :> <<"N","L","P">> @@
    "NoSQL" :> <<"N","o","S","Q","L">> @@
    "Node" :> <<"N","o","d","e">> @@
    "Node.js" :> <<"N","o","d","e",".","j","s">> @@
    "NodeJS" :> <<"N","o","d","e","J","S">> @@
    "PyTorch" :> <<"P","y","T","o","r","c","h">> @@
    "Python" :> <<"P","y","t","h","o","n">> @@
    "React" :> <<"R","e","a","c","t">> @@
    "React Native" :> <<"R","e","a","c","t"," ","N","a","t","i","v","e">> @@
    "ReactJS" :> <<"R","e","a","c","t","J","S">> @@
    "Software Development" :> <<"S","o","f","t","w","a","r","e"," ","D","e","v","e","l","o","p","m","e","n","t">> @@
    "TensorFlow" :> <<"T","e","n","s","o","r","F","l","o","w">> @@
    "TypeScript" :> <<"T","y","p","e","S","c","r","i","p","t">> @@
    "iOS" :> <<"i","O","S">>

\* skill.lower()
LowerSkill(label) == Lower(SkillChars[label])

(***************************************************************************)
(* Ranker: _rank_and_filter_talent                                          *)
(***************************************************************************)
\* len(required_skills.intersection(talent_skills))
SkillMatch(talent, reqs) ==
    Cardinality({LowerSkill(s) : s \in reqs.skills}
                    \cap {LowerSkill(s) : s \in Range(talent.skill_keywords)})

\* "talent.risk_score or 3": a missing score (0 here) counts as 3
RiskOr3(talent) == IF talent.risk_score = 0 THEN 3 ELSE talent.risk_score

\* match_score as the double the code computes, left to right
MatchScoreMutant(talent, reqs) ==
    LET skill_match  == SkillMatch(talent, reqs)
        total_skills == Len(talent.skill_keywords)
    IN  DoubleAdd(DoubleAdd(DoubleTimes04(RiskOr3(talent)),
                            DoubleTimes04(Min(5, skill_match))),
                  DoubleHalvesTimes02(Max(0, 10 - total_skills)))

MatchScore(talent, reqs) ==
    LET skill_match  == SkillMatch(talent, reqs)
        total_skills == Len(talent.skill_keywords)
    IN  DoubleAdd(DoubleAdd(DoubleTimes04(RiskOr3(talent)),
                            DoubleTimes04(Max(0, 5 - skill_match))),
                  DoubleHalvesTimes02(Max(0, 10 - total_skills)))

\* one insertion of sorted(): x goes behind every element whose key is not
\* greater than its own, so equal keys keep their input order
UnstableInsert(sorted, x, reqs) ==
    LET before == {i \in 1..Len(sorted) :
                       DoubleLess(MatchScore(sorted[i], reqs), MatchScore(x, reqs))}
        n == Cardinality(before)
    IN  SubSeq(sorted, 1, n) \o <<x>> \o SubSeq(sorted, n + 1, Len(sorted))

StableInsert(sorted, x, reqs) ==
    LET before == {i \in 1..Len(sorted) :
                       ~DoubleLess(MatchScore(x, reqs), MatchScore(sorted[i], reqs))}
        n == Cardinality(before)
    IN  SubSeq(sorted, 1, n) \o <<x>> \o SubSeq(sorted, n + 1, Len(sorted))

\* sorted(talent_profiles, key = match_score)
RECURSIVE SortByMatchScore(_, _)
SortByMatchScore(profiles, reqs) ==
    IF Len(profiles) = 0 THEN <<>>
    ELSE StableInsert(SortByMatchScore(SubSeq(profiles, 1, Len(profiles) - 1), reqs),
                      profiles[Len(profiles)], reqs)

\* sorted_talent[:target_quantity] for target_quantity >= 0
SliceMutant(s, n) == SubSeq(s, 1, Min(n + 1, Len(s)))

SliceTo(s, n) == SubSeq(s, 1, Min(n, Len(s)))

rank_and_filter_talent(profiles, reqs) ==
    SliceTo(SortByMatchScore(profiles, reqs), reqs.quantity)


(***************************************************************************)
(* Query generator: _generate_search_queries                                *)
(***************************************************************************)
search_platforms ==
    <<<<"s","i","t","e",":","u","p","w","o","r","k",".","c","o","m","/","f","r","e","e","l","a","n","c","e","r","s">>,
      <<"s","i","t","e",":","l","i","n","k","e","d","i","n",".","c","o","m","/","i","n">>,
      <<"s","i","t","e",":","g","i","t","h","u","b",".","c","o","m">>,
      <<"s","i","t","e",":","s","t","a","c","k","o","v","e","r","f","l","o","w",".","c","o","m","/","u","s","e","r","s">>,
      <<"s","i","t","e",":","f","r","e","e","l","a","n","c","e","r",".","c","o","m">>>>

\* SeniorityLevel.value
SeniorityValue ==
    "Junior" :> <<"J","u","n","i","o","r">> @@
    "Mid" :> <<"M","i","d">> @@
    "Senior" :> <<"S","e","n","i","o","r">> @@
    "Lead" :> <<"L","e","a","d">> @@
    "Principal" :> <<"P","r","i","n","c","i","p","a","l">>

\* the orders list(set(...)) can give to a set of skill labels
SkillOrders(S) ==
    {f \in [1..Cardinality(S) -> S] : \A i, j \in 1..Cardinality(S) : f[i] = f[j] => i = j}

\* one platform-specific query
PlatformQuery(skill_string, seniority, platform) ==
    IF Contains(platform, <<"u","p","w","o","r","k">>)
    THEN skill_string \o <<" ">> \o SeniorityValue[seniority] \o <<" ","d","e","v","e","l","o","p","e","r"," ">> \o platform
    ELSE IF Contains(platform, <<"l","i","n","k","e","d","i","n">>)
    THEN skill_string \o <<" ","s","o","f","t","w","a","r","e"," ","e","n","g","i","n","e","e","r"," ">> \o SeniorityValue[seniority]
             \o <<" ">> \o platform
    ELSE skill_string \o <<" ","d","e","v","e","l","o","p","e","r"," ">> \o platform

\* skills is requirements["skills"] in the order the list has in this run
generate_search_queries(skills, seniority) ==
    LET skill_string == JoinWords([i \in 1..Min(4, Len(skills)) |-> SkillChars[skills[i]]])
        platform_queries ==
            [i \in 1..3 |-> PlatformQuery(skill_string, seniority, search_platforms[i])]
        general_queries ==
            <<skill_string \o <<" ">> \o SeniorityValue[seniority] \o <<" ","d","e","v","e","l","o","p","e","r"," ","f","r","e","e","l","a","n","c","e","r">>,
              skill_string \o <<" ","s","o","f","t","w","a","r","e"," ","e","n","g","i","n","e","e","r"," ","r","e","m","o","t","e">>,
              skill_string \o <<" ","c","o","n","s","u","l","t","a","n","t"," ","e","x","p","e","r","t"," ","d","e","v","e","l","o","p","e","r">>>>
    IN  SliceTo(platform_queries \o general_queries, 5)

(***************************************************************************)
(* Search executor: _execute_searches                                       *)
(***************************************************************************)
\* "result['search_query'] = query; result['search_index'] = i"
AnnotateMutant(result, query, i) ==
    [title |-> result.title, url |-> result.url, content |-> result.content,
     search_query |-> query, search_index |-> i - 1]

Annotate(result, query, i) ==
    [title |-> result.title, url |-> result.url, content |-> result.content,
     search_query |-> query, search_index |-> i]

\* one iteration whose provider call raises ("raise"), or returns a response
\* that the loop body cannot process ("malformed": no .get, 'results' that is
\* no list, a result that is no dict): the except clause logs and continues
SearchFailsMutant(kind) ==
    /\ exec_pc = "loop"
    /\ qi <= Len(search_queries)
    /\ kind \in {"raise", "malformed"}
    /\ responses' = Append(responses, [kind |-> kind, results |-> <<>>])
    /\ events' = Append(events, [kind |-> "call", index |-> qi])
    /\ exec_pc' = "done"
    /\ UNCHANGED <<search_queries, qi, all_results>>

SearchFails(kind) ==
    /\ exec_pc = "loop"
    /\ qi <= Len(search_queries)
    /\ kind \in {"raise", "malformed"}
    /\ responses' = Append(responses, [kind |-> kind, results |-> <<>>])
    /\ events' = Append(events, [kind |-> "call", index |-> qi])
    /\ qi' = qi + 1
    /\ UNCHANGED <<search_queries, all_results, exec_pc>>

\* one iteration whose provider call returns results: they are annotated,
\* appended, and the loop goes to sleep
SearchSucceeds(results) ==
    /\ exec_pc = "loop"
    /\ qi <= Len(search_queries)
    /\ responses' = Append(responses, [kind |-> "ok", results |-> results])
    /\ events' = Append(events, [kind |-> "call", index |-> qi])
    /\ all_results' = all_results \o
           [j \in 1..Len(results) |-> Annotate(results[j], search_queries[qi], qi)]
    /\ exec_pc' = "sleeping"
    /\ UNCHANGED <<search_queries, qi>>

\* "await asyncio.sleep(1)" is over: next iteration
SleepDone ==
    /\ exec_pc = "sleeping"
    /\ events' = Append(events, [kind |-> "sleep", index |-> qi])
    /\ qi' = qi + 1
    /\ exec_pc' = "loop"
    /\ UNCHANGED <<search_queries, all_results, responses>>

\* the loop is over: "return all_results"
ExecReturn ==
    /\ exec_pc = "loop"
    /\ qi > Len(search_queries)
    /\ exec_pc' = "done"
    /\ UNCHANGED <<search_queries, qi, all_results, responses, events>>

\* documents the search provider can return
Documents ==
    { [title |-> <<"J","a","n","e"," ","S","m","i","t","h"," ","-"," ","S","e","n","i","o","r"," ","D","e","v">>,
       url |-> <<"h","t","t","p","s",":","/","/","w","w","w",".","u","p","w","o","r","k",".","c","o","m","/","f","r","e","e","l","a","n","c","e","r","s","/","j","a","n","e">>,
       content |-> <<"R","e","a","c","t"," ","d","e","v",","," ","5"," ","y","e","a","r","s"," ","o","f"," ","e","x","p","e","r","i","e","n","c","e",","," ","4",".","5"," ","s","t","a","r","s",","," ","$","7","5","/","h","o","u","r">>],
      [title |-> <<"S","a","m"," ","L","e","e"," ","|"," ","P","y","t","h","o","n">>,
       url |-> <<"h","t","t","p","s",":","/","/","g","i","t","h","u","b",".","c","o","m","/","s","a","m">>,
       content |-> <<>>] }

(***************************************************************************)
(* Profile extractor: _extract_profile_data and _extract_talent_profiles.   *)
(* Each regular expression is matched the way re.search matches it: the     *)
(* leftmost start that has a match, and there the match the backtracking    *)
(* order finds first.  A \d+ is always followed in these patterns by        *)
(* something that is not a digit, so a match starts at the start of a run   *)
(* of digits and takes the whole run; the optional parts are followed by    *)
(* something they do not start with, so they are taken whenever present.    *)
(***************************************************************************)
\* characters \s matches
IsSpace(c) == c \in {" ", "\t", "\n", "\r"}

IsLetter(c) == c \in Range(UpperLetters) \/ c \in Range(LowerLetters)

\* first position from p on that holds no white space (Len(s) + 1 if none)
SkipSpaces(s, p) ==
    CHOOSE q \in p..(Len(s) + 1) :
        /\ \A m \in p..(q - 1) : IsSpace(s[m])
        /\ (q = Len(s) + 1 \/ ~IsSpace(s[q]))

\* the literal lit stands in s at position p
At(s, p, lit) == p + Len(lit) - 1 <= Len(s) /\ SubSeq(s, p, p + Len(lit) - 1) = lit

\* positions where a run of digits starts
RunStarts(s) == {i \in 1..Len(s) : IsDigit(s[i]) /\ (i = 1 \/ ~IsDigit(s[i - 1]))}

\* last position of the run of digits that holds position p
DigitRunEnd(s, p) ==
    CHOOSE j \in p..Len(s) :
        /\ \A m \in p..j : IsDigit(s[m])
        /\ (j = Len(s) \/ ~IsDigit(s[j + 1]))

\* end of "\d+(?:\.\d+)?" started at the run start i
DecimalEndMutant(s, i) == DigitRunEnd(s, i)

DecimalEnd(s, i) ==
    LET e == DigitRunEnd(s, i)
    IN  IF At(s, e + 1, <<".">>) /\ e + 2 <= Len(s) /\ IsDigit(s[e + 2])
        THEN DigitRunEnd(s, e + 2) ELSE e

\* str.strip()
Strip(s) ==
    IF \A i \in 1..Len(s) : IsSpace(s[i]) THEN <<>>
    ELSE LET a == CHOOSE i \in 1..Len(s) :
                      ~IsSpace(s[i]) /\ \A m \in 1..(i - 1) : IsSpace(s[m])
             b == CHOOSE j \in 1..Len(s) :
                      ~IsSpace(s[j]) /\ \A m \in (j + 1)..Len(s) : IsSpace(s[m])
         IN  SubSeq(s, a, b)

\* the en dash of the name pattern is the one-character string "endash"
NameTerminators == {"-", "endash", "|"}

\* (?:\s*[-endash|]|\s*\d|\s*$) from position p
NameTail(s, p) ==
    LET q == SkipSpaces(s, p)
    IN  q = Len(s) + 1 \/ s[q] \in NameTerminators \/ IsDigit(s[q])

\* re.search(r'^([A-Za-z\s]+?)(?:...)', title): group 1, or "none"
NameMatch(title) ==
    LET lens == {n \in 1..Len(title) :
                     /\ \A m \in 1..n : IsLetter(title[m]) \/ IsSpace(title[m])
                     /\ NameTail(title, n + 1)}
    IN  IF lens = {} THEN [found |-> FALSE, group |-> <<>>]
        ELSE [found |-> TRUE,
              group |-> SubSeq(title, 1, CHOOSE n \in lens : \A m \in lens : n <= m)]

\* \+?\s*years?\s*(?:of\s*)?(?:experience|exp) from position p
ExperienceTail(s, p) ==
    LET p1 == IF At(s, p, <<"+">>) THEN p + 1 ELSE p
        p2 == SkipSpaces(s, p1)
        p3 == p2 + 4
        p4 == IF At(s, p3, <<"s">>) THEN p3 + 1 ELSE p3
        p5 == SkipSpaces(s, p4)
        p6 == IF At(s, p5, <<"o","f">>) THEN SkipSpaces(s, p5 + 2) ELSE p5
    IN  At(s, p2, <<"y","e","a","r">>) /\ At(s, p6, <<"e","x","p">>)

\* re.search(r'(\d+)\+?\s*years?\s*(?:of\s*)?(?:experience|exp)', s)
ExperienceMatch(s) ==
    LET starts == {i \in RunStarts(s) : ExperienceTail(s, DigitRunEnd(s, i) + 1)}
    IN  IF starts = {} THEN [found |-> FALSE, group |-> <<>>]
        ELSE LET i == CHOOSE a \in starts : \A b \in starts : a <= b
             IN  [found |-> TRUE, group |-> SubSeq(s, i, DigitRunEnd(s, i))]

\* \s*(?:stars?|rating|\/5) from position p
RatingTail(s, p) ==
    LET q == SkipSpaces(s, p)
    IN  At(s, q, <<"s","t","a","r">>) \/ At(s, q, <<"r","a","t","i","n","g">>) \/ At(s, q, <<"/","5">>)

\* re.search(r'(\d+(?:\.\d+)?)\s*(?:stars?|rating|\/5)', s)
RatingMatch(s) ==
    LET starts == {i \in RunStarts(s) : RatingTail(s, DecimalEnd(s, i) + 1)}
    IN  IF starts = {} THEN [found |-> FALSE, group |-> <<>>]
        ELSE LET i == CHOOSE a \in starts : \A b \in starts : a <= b
             IN  [found |-> TRUE, group |-> SubSeq(s, i, DecimalEnd(s, i))]

\* re.search(r'\$(\d+)(?:\.\d+)?\/(?:hour|hr)', s)
RateMatch(s) ==
    LET starts == {i \in 1..Len(s) :
                       /\ s[i] = "$"
                       /\ i + 1 <= Len(s) /\ IsDigit(s[i + 1])
                       /\ LET e == DecimalEnd(s, i + 1)
                          IN  /\ At(s, e + 1, <<"/">>)
                              /\ (At(s, e + 2, <<"h","o","u","r">>) \/ At(s, e + 2, <<"h","r">>))}
    IN  IF starts = {} THEN [found |-> FALSE, group |-> <<>>]
        ELSE LET i == CHOOSE a \in starts : \A b \in starts : a <= b
             IN  [found |-> TRUE, group |-> SubSeq(s, i + 1, DigitRunEnd(s, i + 1))]

\* "Determine seniority based on experience"
SeniorityMutant(years) ==
    IF years < 2 THEN "Junior"
    ELSE IF years <= 5 THEN "Mid"
    ELSE IF years < 8 THEN "Senior"
    ELSE "Lead"

SeniorityOfYears(years) ==
    IF years < 2 THEN "Junior"
    ELSE IF years < 5 THEN "Mid"
    ELSE IF years < 8 THEN "Senior"
    ELSE "Lead"

\* "Determine strengths"
Strengths(found_skills, url) ==
    (IF Len(found_skills) >= 5 THEN <<"Diverse skill set">> ELSE <<>>)
    \o (IF "Full Stack" \in Range(found_skills)
           \/ ("Frontend" \in Range(found_skills) /\ "Backend" \in Range(found_skills))
        THEN <<"Full-stack capabilities">> ELSE <<>>)
    \o (IF "AI" \in Range(found_skills) \/ "Machine Learning" \in Range(found_skills)
        THEN <<"AI/ML expertise">> ELSE <<>>)
    \o (IF Contains(url, UpworkDomain) THEN <<"Upwork verified">> ELSE <<>>)

RoleDescription == "Software development professional"

\* "Extract skills": the patterns found in the lowered title and content
FoundSkills(text_to_search) ==
    SelectSeq(skill_patterns, LAMBDA skill : Contains(text_to_search, LowerSkill(skill)))

\* the dictionary filled from the four matches and the skills found
ProfileData(name_match, found_skills, exp_match, rating_match, rate_match, url) ==
    LET years      == StrToInt(exp_match.group)
        experience == IF exp_match.found THEN IntToStr(years) \o YearsSuffix
                      ELSE NotSpecified
        rating     == IF rating_match.found THEN rating_match.group \o OutOfFive
                      ELSE NotSpecified
    IN  [name |-> IF name_match.found THEN Strip(name_match.group) ELSE Unknown,
         skills |-> found_skills,
         experience |-> experience,
         rating |-> rating,
         rate |-> IF rate_match.found
                  THEN <<"$">> \o rate_match.group \o <<"/","h","o","u","r">> ELSE NotSpecified,
         seniority |-> IF exp_match.found THEN SeniorityOfYears(years) ELSE "Mid",
         strengths |-> Strengths(found_skills, url),
         risk_score |-> ChatbotRiskScore(found_skills, url, rating, experience),
         role_description |-> RoleDescription]

extract_profile_data(title, content, url) ==
    ProfileData(NameMatch(title),
                FoundSkills(Lower(title \o <<" ">> \o content)),
                ExperienceMatch(Lower(content)),
                RatingMatch(Lower(content)),
                RateMatch(Lower(content)),
                url)

\* content[:200] + "..." if len(content) > 200 else content
Summary(content) ==
    IF Len(content) > 200 THEN SubSeq(content, 1, 200) \o <<".", ".", ".">> ELSE content

\* Talent(...) from the dictionary profile_data; id is the object identity
Talent(result, id, profile_data) ==
    [id |-> id,
     title |-> profile_data.name,
     purpose |-> profile_data.role_description,
     seniority |-> profile_data.seniority,
     skill_keywords |-> profile_data.skills,
     profile_url |-> result.url,
     experience_years |-> profile_data.experience,
     rating |-> profile_data.rating,
     hourly_rate |-> profile_data.rate,
     risk_score |-> profile_data.risk_score,
     strengths |-> profile_data.strengths,
     summary |-> Summary(result.content)]

\* a search result is a dictionary of the provider: result.absent holds the
\* keys it lacks and result.null the keys whose value is None (a result
\* without these two fields has all three keys with string values)
Absent(result, key) == "absent" \in DOMAIN result /\ key \in result.absent

IsNull(result, key) == "null" \in DOMAIN result /\ key \in result.null

\* result.get(key, default)
GetField(result, key, default) == IF Absent(result, key) THEN default ELSE result[key]

UnknownDeveloper == <<"U","n","k","n","o","w","n"," ","D","e","v","e","l","o","p","e","r">>

\* a None title fails in re.search, a None content in title + " " + content,
\* a None url in 'upwork.com' in url: each is a TypeError inside the try
ExtractRaises(result) ==
    \E key \in {"title", "url", "content"} : ~Absent(result, key) /\ IsNull(result, key)

\* the Talent built from one search result
TalentOf(result, id) ==
    Talent([url |-> GetField(result, "url", <<>>),
            content |-> GetField(result, "content", <<>>)],
           id,
           extract_profile_data(GetField(result, "title", UnknownDeveloper),
                                GetField(result, "content", <<>>),
                                GetField(result, "url", <<>>)))

\* "except Exception: continue": a result whose extraction raises is skipped
RECURSIVE ExtractFrom(_, _)
ExtractFrom(results, i) ==
    IF i > Len(results) THEN <<>>
    ELSE (IF ExtractRaises(results[i]) THEN <<>>
          ELSE <<TalentOf(results[i], i)>>)
         \o ExtractFrom(results, i + 1)

extract_talent_profiles(results) == ExtractFrom(results, 1)

(***************************************************************************)
(* extract_developer_info of the standalone script: the same four patterns, *)
(* its own skill list, and the digits of the experience kept as matched     *)
(***************************************************************************)
StandaloneFoundSkills(text_to_search) ==
    SelectSeq(standalone_skills, LAMBDA skill : Contains(text_to_search, LowerSkill(skill)))

StandaloneStrengths(found_skills, text_to_search, url) ==
    (IF Len(found_skills) >= 6 THEN <<"Strong technical skill set">> ELSE <<>>)
    \o (IF Contains(text_to_search, <<"r","e","a","c","t">>) /\ Contains(text_to_search, <<"n","o","d","e">>)
        THEN <<"Full MERN stack experience">> ELSE <<>>)
    \o (IF \/ Contains(text_to_search, <<"a","i">>)
           \/ Contains(text_to_search, <<"m","a","c","h","i","n","e"," ","l","e","a","r","n","i","n","g">>)
           \/ Contains(text_to_search, <<"d","e","e","p"," ","l","e","a","r","n","i","n","g">>)
        THEN <<"AI/ML expertise">> ELSE <<>>)
    \o (IF Contains(url, UpworkDomain) THEN <<"Upwork verified profile">> ELSE <<>>)

DeveloperInfo(name_match, found_skills, exp_match, rating_match, rate_match, text_to_search, url) ==
    [name |-> IF name_match.found THEN Strip(name_match.group) ELSE Unknown,
     skills |-> found_skills,
     experience |-> IF exp_match.found THEN exp_match.group \o YearsSuffix ELSE Unknown,
     rating |-> IF rating_match.found THEN rating_match.group \o OutOfFive
                ELSE NotSpecified,
     rate |-> IF rate_match.found
              THEN <<"$">> \o rate_match.group \o <<"/","h","o","u","r">> ELSE NotSpecified,
     risk_factors |-> <<>>,
     strengths |-> StandaloneStrengths(found_skills, text_to_search, url)]

extract_developer_info(title, content, url) ==
    DeveloperInfo(NameMatch(title),
                  StandaloneFoundSkills(Lower(title \o <<" ">> \o content)),
                  ExperienceMatch(Lower(content)),
                  RatingMatch(Lower(content)),
                  RateMatch(Lower(content)),
                  Lower(title \o <<" ">> \o content),
                  url)

(***************************************************************************)
(* Standalone script: risk_assessment_agent and final_recommendation_agent  *)
(***************************************************************************)
get_risk_level(score) ==
    CASE score = 1 -> "Very Low Risk"
      [] score = 2 -> "Low Risk"
      [] score = 3 -> "Medium Risk"
      [] score = 4 -> "High Risk"
      [] score = 5 -> "Very High Risk"
      [] OTHER     -> "Unknown Risk"

NoUrl == <<"N","o"," ","U","R","L">>

NoContent == <<"N","o"," ","c","o","n","t","e","n","t"," ","a","v","a","i","l","a","b","l","e">>

\* structured_profile of one search result
StructuredProfile(i, title, url, content, developer_profile) ==
    [id |-> i,
     name |-> developer_profile.name,
     profile_url |-> url,
     title |-> title,
     skills |-> developer_profile.skills,
     experience_years |-> developer_profile.experience,
     rating |-> developer_profile.rating,
     hourly_rate |-> developer_profile.rate,
     risk_score |-> calculate_risk_score(developer_profile),
     risk_level |-> get_risk_level(calculate_risk_score(developer_profile)),
     risk_factors |-> developer_profile.risk_factors,
     strengths |-> developer_profile.strengths,
     summary |-> Summary(content)]

EvaluateResult(result, i) ==
    StructuredProfile(i,
                      GetField(result, "title", UnknownDeveloper),
                      GetField(result, "url", NoUrl),
                      GetField(result, "content", NoContent),
                      extract_developer_info(GetField(result, "title", UnknownDeveloper),
                                             GetField(result, "content", NoContent),
                                             GetField(result, "url", NoUrl)))

\* the loop over search_results[:5]
EvaluatedDevelopers(results) ==
    [i \in 1..Min(5, Len(results)) |-> EvaluateResult(results[i], i)]

\* a None title or content raises in extract_developer_info and a None url in
\* "upwork.com" in url; nothing in the agent catches it
AssessmentRaises(results) ==
    \E i \in 1..Min(5, Len(results)) : ExtractRaises(results[i])

\* key = lambda x: (x["risk_score"], -len(x["skills"])): a comes before b
KeyLessMutant(a, b) ==
    \/ a.risk_score < b.risk_score
    \/ a.risk_score = b.risk_score /\ Len(a.skills) < Len(b.skills)

KeyLess(a, b) ==
    \/ a.risk_score < b.risk_score
    \/ a.risk_score = b.risk_score /\ -Len(a.skills) < -Len(b.skills)

\* one insertion of sorted(): x goes behind every element whose key is not
\* greater than its own
InsertDeveloper(sorted, x) ==
    LET n == Cardinality({i \in 1..Len(sorted) : ~KeyLess(x, sorted[i])})
    IN  SubSeq(sorted, 1, n) \o <<x>> \o SubSeq(sorted, n + 1, Len(sorted))

RECURSIVE SortDevelopers(_)
SortDevelopers(developers) ==
    IF Len(developers) = 0 THEN <<>>
    ELSE InsertDeveloper(SortDevelopers(SubSeq(developers, 1, Len(developers) - 1)),
                         developers[Len(developers)])

\* final_recommendations of final_recommendation_agent
top_5(developers) == SliceTo(SortDevelopers(developers), 5)

(***************************************************************************)
(* chat(): one request, from the user message to the ChatbotResponse.       *)
(* A step runs from one await on a collaborator to the next.                *)
(***************************************************************************)
\* fallback of _analyze_search_intent
talent_keywords ==
    <<<<"f","i","n","d">>, <<"s","e","a","r","c","h">>, <<"n","e","e","d">>, <<"d","e","v","e","l","o","p","e","r">>, <<"e","n","g","i","n","e","e","r">>,
      <<"p","r","o","g","r","a","m","m","e","r">>, <<"t","a","l","e","n","t">>, <<"h","i","r","e">>, <<"r","e","c","r","u","i","t">>>>

KeywordDetection(message) ==
    \E i \in 1..Len(talent_keywords) : Contains(Lower(message), talent_keywords[i])

\* what the classification call can do: raise, return text that json.loads
\* rejects, return JSON that is no object, or return an object whose
\* is_talent_request is true, false or missing and whose skills are a list
\* of strings or not
IntentOutcomes ==
    {[kind |-> "raise", is_talent_request |-> "missing", skills_ok |-> TRUE],
     [kind |-> "unparseable", is_talent_request |-> "missing", skills_ok |-> TRUE],
     [kind |-> "not_object", is_talent_request |-> "missing", skills_ok |-> TRUE]}
    \cup [kind : {"json"}, is_talent_request : {"true", "false", "missing"},
          skills_ok : BOOLEAN]

\* the dictionary _analyze_search_intent returns
analyze_search_intent(message, outcome) ==
    IF outcome.kind \in {"raise", "unparseable"}
    THEN [kind |-> "fallback",
          is_talent_request |-> IF KeywordDetection(message) THEN "true" ELSE "false",
          skills_ok |-> TRUE]
    ELSE outcome

NoResponse ==
    [message |-> [kind |-> "none"], talent_results |-> <<>>, search_performed |-> FALSE,
     search_summary |-> -1, conversation_context |-> "none"]

\* ChatbotResponse of the outermost except clause of chat()
ApologyResponse(error) ==
    [message |-> [kind |-> "apology", error |-> error], talent_results |-> <<>>,
     search_performed |-> FALSE, search_summary |-> -1, conversation_context |-> "none"]

\* "except Exception" of chat(): the exception becomes an apology
ChatExceptMutant(error) ==
    /\ chat_pc' = "raised"
    /\ response' = NoResponse
    /\ UNCHANGED <<user_message, conversation_history, talent_results,
                   reqVars, rankVars, execVars>>

ChatExcept(error) ==
    /\ chat_pc' = "done"
    /\ response' = ApologyResponse(error)
    /\ UNCHANGED <<user_message, conversation_history, talent_results,
                   reqVars, rankVars, execVars>>

\* None of an optional Talent field that is only ever printed
NoneText == <<"N","o","n","e">>

\* _create_error_talent; a None url is the empty string (both are falsy) and
\* a None risk_score is 0
ErrorTalent ==
    [id |-> 1,
     title |-> <<"S","y","s","t","e","m"," ","E","r","r","o","r">>,
     purpose |-> "Error occurred during talent search",
     seniority |-> "Senior",
     skill_keywords |-> <<"troubleshooting", "system administration">>,
     profile_url |-> <<>>,
     experience_years |-> NoneText,
     rating |-> NoneText,
     hourly_rate |-> NoneText,
     risk_score |-> 0,
     strengths |-> <<>>,
     summary |-> <<"A","n"," ","e","r","r","o","r"," ","o","c","c","u","r","r","e","d"," ","d","u","r","i","n","g"," ","t","h","e"," ","t","a","l","e","n","t"," ","h","u","n","t","i","n","g"," ","p","r","o","c","e","s","s",".">>]

NoCandidatesMessage == [kind |-> "no_candidates"]

\* "if not talent_results: return <no candidates>", else the formatting call
NeedsFormattingMutant(results) == TRUE

NeedsFormatting(results) == results # <<>>

\* fallback template of _generate_results_response
TemplateMessage(results) ==
    [kind |-> "template",
     count |-> Len(results),
     entries |-> [i \in 1..Min(5, Len(results)) |->
                     [name |-> results[i].title,
                      skills |-> SliceTo(results[i].skill_keywords, 5),
                      experience |-> results[i].experience_years,
                      risk |-> results[i].risk_score,
                      url |-> results[i].profile_url]]]

\* ChatbotResponse of _handle_talent_search
SearchResponse(message, results) ==
    [message |-> message, talent_results |-> results, search_performed |-> TRUE,
     search_summary |-> Len(results), conversation_context |-> "talent_search_completed"]

\* chat() is called: the user message is logged into the history and the
\* classification call is awaited
ChatStart(message) ==
    /\ chat_pc = "idle"
    /\ user_message' = message
    /\ conversation_history' =
           Append(conversation_history,
                  [role |-> "user", content |-> [kind |-> "text", text |-> message]])
    /\ chat_pc' = "intent"
    /\ UNCHANGED <<search_intent, talent_results, response, reqVars, rankVars, execVars>>

\* the classification call is over and the intent says "no talent request":
\* _handle_general_chat awaits the completion call
IntentGeneral(outcome) ==
    /\ chat_pc = "intent"
    /\ analyze_search_intent(user_message, outcome).is_talent_request = "false"
    /\ analyze_search_intent(user_message, outcome).kind # "not_object"
    /\ search_intent' = analyze_search_intent(user_message, outcome)
    /\ chat_pc' = "general"
    /\ UNCHANGED <<user_message, conversation_history, talent_results, response,
                   reqVars, rankVars, execVars>>

\* the intent cannot be read (search_intent["is_talent_request"] raises), or
\* _generate_search_acknowledgment raises on skills that are no strings
IntentRaises(outcome) ==
    /\ chat_pc = "intent"
    /\ LET intent == analyze_search_intent(user_message, outcome)
       IN  /\ \/ intent.kind = "not_object"
              \/ intent.is_talent_request = "missing"
              \/ (intent.is_talent_request = "true" /\ ~intent.skills_ok)
           /\ search_intent' = intent
           /\ ChatExcept(IF intent.kind = "not_object" THEN "TypeError"
                         ELSE IF intent.is_talent_request = "missing" THEN "KeyError"
                         ELSE "TypeError")

\* a talent request: requirements are decomposed, the queries generated (the
\* skills in the order their list has in this run) and the executor started
IntentTalent(outcome, order) ==
    /\ chat_pc = "intent"
    /\ LET intent == analyze_search_intent(user_message, outcome)
           reqs   == decompose_requirements(user_message)
       IN  /\ intent.kind # "not_object"
           /\ intent.is_talent_request = "true"
           /\ intent.skills_ok
           /\ order \in SkillOrders(reqs.skills)
           /\ search_intent' = intent
           /\ text' = user_message
           /\ requirements' = reqs
           /\ search_queries' = generate_search_queries(order, reqs.seniority)
    /\ qi' = 1
    /\ all_results' = <<>>
    /\ responses' = <<>>
    /\ events' = <<>>
    /\ exec_pc' = "loop"
    /\ chat_pc' = "search"
    /\ UNCHANGED <<user_message, conversation_history, talent_results, response, rankVars>>

\* an exception escapes a step of _search_talent_with_tavily (a MemoryError,
\* or int() refusing an over-long digit string): its except clause returns the one
\* "System Error" talent, and the formatting call is awaited for it
IntentTalentFault(outcome) ==
    /\ chat_pc = "intent"
    /\ LET intent == analyze_search_intent(user_message, outcome)
       IN  /\ intent.kind # "not_object"
           /\ intent.is_talent_request = "true"
           /\ intent.skills_ok
           /\ search_intent' = intent
    /\ talent_results' = <<ErrorTalent>>
    /\ chat_pc' = "format"
    /\ UNCHANGED <<user_message, conversation_history, response, reqVars, rankVars, execVars>>

\* the executor has returned: profiles are extracted and ranked; an empty
\* list is answered at once, any other list goes to the formatting call
SearchDone ==
    /\ chat_pc = "search"
    /\ exec_pc = "done"
    /\ LET profiles == extract_talent_profiles(all_results)
           final    == rank_and_filter_talent(profiles, requirements)
       IN  /\ search_results' = all_results
           /\ extract_pc' = "done"
           /\ talent_profiles' = profiles
           /\ ranking' = [done |-> TRUE, top_talent |-> final]
           /\ talent_results' = final
           /\ IF NeedsFormatting(final)
              THEN /\ chat_pc' = "format"
                   /\ UNCHANGED <<conversation_history, response>>
              ELSE /\ conversation_history' =
                          Append(conversation_history,
                                 [role |-> "assistant", content |-> NoCandidatesMessage])
                   /\ response' = SearchResponse(NoCandidatesMessage, final)
                   /\ chat_pc' = "done"
    /\ UNCHANGED <<user_message, search_intent, reqVars, execVars>>

\* the formatting call returns prose, or fails and the template is used
FormatReturn(ok) ==
    /\ chat_pc = "format"
    /\ LET message == IF ok THEN [kind |-> "llm"] ELSE TemplateMessage(talent_results)
       IN  /\ conversation_history' =
                  Append(conversation_history, [role |-> "assistant", content |-> message])
           /\ response' = SearchResponse(message, talent_results)
    /\ chat_pc' = "done"
    /\ UNCHANGED <<user_message, search_intent, talent_results, reqVars, rankVars, execVars>>

\* the completion call of _handle_general_chat returns, or fails
GeneralReturn(ok) ==
    /\ chat_pc = "general"
    /\ IF ok
       THEN /\ conversation_history' =
                   Append(conversation_history,
                          [role |-> "assistant", content |-> [kind |-> "llm"]])
            /\ response' = [message |-> [kind |-> "llm"], talent_results |-> <<>>,
                            search_performed |-> FALSE, search_summary |-> -1,
                            conversation_context |-> "general_chat"]
       ELSE /\ response' = [message |-> [kind |-> "general_fallback"],
                            talent_results |-> <<>>, search_performed |-> FALSE,
                            search_summary |-> -1, conversation_context |-> "none"]
            /\ UNCHANGED conversation_history
    /\ chat_pc' = "done"
    /\ UNCHANGED <<user_message, search_intent, talent_results, reqVars, rankVars, execVars>>

(***************************************************************************)
(* The talent API (src/talent_scraper/api.py): requests served on one event *)
(* loop by the one module-level chatbot.  A request runs from one await to  *)
(* the next without interruption; between awaits any other request may run. *)
(***************************************************************************)
\* two chat requests and one reset request
ChatRequests == {"c1", "c2"}

ResetRequests == {"x1"}

ApiRequests == ChatRequests \cup ResetRequests

\* a request slot before its request arrives
NoCall ==
    [op |-> "none", pc |-> "idle", message |-> <<>>, context |-> <<>>,
     talent_results |-> <<>>, reset_seen |-> FALSE, reply |-> NoResponse]

SessionIdle == calls = [r \in ApiRequests |-> NoCall]

UserEntry(message) == [role |-> "user", content |-> [kind |-> "text", text |-> message]]

AssistantEntryMutant(content) == [role |-> "user", content |-> content]

AssistantEntry(content) == [role |-> "assistant", content |-> content]

\* self.conversation_history[-10:]
ContextMutant(history) == SubSeq(history, Max(1, Len(history)), Len(history))

Last10(history) == SubSeq(history, Max(1, Len(history) - 9), Len(history))

\* self.conversation_history = []
ResetMutant(history) == history

reset_conversation(history) == <<>>

\* get_conversation_summary
get_conversation_summary(history) ==
    IF history = <<>>
    THEN [kind |-> "no_history_yet"]
    ELSE [kind |-> "counts",
          messages_count |-> Len(history),
          user_messages |-> Cardinality({i \in 1..Len(history) : history[i].role = "user"})]

\* steps 1 to 5 of _search_talent_with_tavily on the aggregate of the executor
FinalTalentList(message, results) ==
    rank_and_filter_talent(extract_talent_profiles(results), decompose_requirements(message))

\* the request has returned: its locals are gone, its response stays
Returned(call, reply) ==
    [call EXCEPT !.pc = "done", !.message = <<>>, !.context = <<>>,
                 !.talent_results = <<>>, !.reset_seen = FALSE, !.reply = reply]

\* everything a request of the talent API leaves alone
sessionRest ==
    <<profile, risk, standaloneVars, simplifierVars, reqVars, rankVars, execVars,
      chat_pc, user_message, search_intent, talent_results, response>>

\* POST /chat: chat() appends the user message and awaits the classification
CallChat(r, message) ==
    /\ calls[r].pc = "idle"
    /\ calls' = [calls EXCEPT ![r] = [NoCall EXCEPT !.op = "chat", !.pc = "intent",
                                                    !.message = message]]
    /\ conversation_history' = Append(conversation_history, UserEntry(message))
    /\ UNCHANGED sessionRest

\* no talent request: _handle_general_chat builds its messages from the last
\* ten entries of the history and awaits the completion call
CallIntentGeneral(r, outcome) ==
    /\ calls[r].pc = "intent"
    /\ analyze_search_intent(calls[r].message, outcome).is_talent_request = "false"
    /\ analyze_search_intent(calls[r].message, outcome).kind # "not_object"
    /\ calls' = [calls EXCEPT ![r].pc = "general",
                              ![r].context = Last10(conversation_history)]
    /\ UNCHANGED <<conversation_history, sessionRest>>

\* search_intent["is_talent_request"] or the acknowledgment raises: apology
CallIntentRaises(r, outcome) ==
    /\ calls[r].pc = "intent"
    /\ LET intent == analyze_search_intent(calls[r].message, outcome)
       IN  /\ \/ intent.kind = "not_object"
              \/ intent.is_talent_request = "missing"
              \/ (intent.is_talent_request = "true" /\ ~intent.skills_ok)
           /\ calls' = [calls EXCEPT ![r] =
                           Returned(@, ApologyResponse(
                               IF intent.kind = "not_object" THEN "TypeError"
                               ELSE IF intent.is_talent_request = "missing" THEN "KeyError"
                               ELSE "TypeError"))]
    /\ UNCHANGED <<conversation_history, sessionRest>>

\* a talent request: the searches are awaited
CallIntentTalent(r, outcome) ==
    /\ calls[r].pc = "intent"
    /\ LET intent == analyze_search_intent(calls[r].message, outcome)
       IN  /\ intent.kind # "not_object"
           /\ intent.is_talent_request = "true"
           /\ intent.skills_ok
    /\ calls' = [calls EXCEPT ![r].pc = "search"]
    /\ UNCHANGED <<conversation_history, sessionRest>>

\* the final list is there: an empty one is answered at once, any other goes
\* to the formatting call
CallSearched(r, final) ==
    /\ calls[r].pc = "search"
    /\ IF NeedsFormatting(final)
       THEN /\ calls' = [calls EXCEPT ![r].pc = "format", ![r].talent_results = final]
            /\ UNCHANGED conversation_history
       ELSE /\ conversation_history' =
                   Append(conversation_history, AssistantEntry(NoCandidatesMessage))
            /\ calls' = [calls EXCEPT ![r] =
                            Returned(@, SearchResponse(NoCandidatesMessage, final))]
    /\ UNCHANGED sessionRest

\* the executor returns its aggregate, or a step of the search raises and the
\* list is the one "System Error" talent
CallSearchReturn(r, results) ==
    /\ calls[r].pc = "search"
    /\ CallSearched(r, FinalTalentList(calls[r].message, results))

CallSearchFault(r) == CallSearched(r, <<ErrorTalent>>)

\* the formatting call returns prose, or fails and the template is used
CallFormatReturn(r, ok) ==
    /\ calls[r].pc = "format"
    /\ LET message == IF ok THEN [kind |-> "llm"]
                      ELSE TemplateMessage(calls[r].talent_results)
       IN  /\ conversation_history' =
                  Append(conversation_history, AssistantEntry(message))
           /\ calls' = [calls EXCEPT ![r] =
                           Returned(@, SearchResponse(message, calls[r].talent_results))]
    /\ UNCHANGED sessionRest

\* the completion call of _handle_general_chat returns, or fails
CallGeneralReturn(r, ok) ==
    /\ calls[r].pc = "general"
    /\ IF ok
       THEN /\ conversation_history' =
                   Append(conversation_history, AssistantEntry([kind |-> "llm"]))
            /\ calls' = [calls EXCEPT ![r] =
                            Returned(@, [message |-> [kind |-> "llm"], talent_results |-> <<>>,
                                         search_performed |-> FALSE, search_summary |-> -1,
                                         conversation_context |-> "general_chat"])]
       ELSE /\ calls' = [calls EXCEPT ![r] =
                            Returned(@, [message |-> [kind |-> "general_fallback"],
                                         talent_results |-> <<>>, search_performed |-> FALSE,
                                         search_summary |-> -1, conversation_context |-> "none"])]
            /\ UNCHANGED conversation_history
    /\ UNCHANGED sessionRest

\* POST /reset-conversation: no await between arrival and response; every
\* chat request that has appended its user message has now seen a reset
CallReset(r, session_id) ==
    /\ calls[r].pc = "idle"
    /\ conversation_history' = reset_conversation(conversation_history)
    /\ calls' = [d \in ApiRequests |->
                    IF d = r
                    THEN [NoCall EXCEPT !.op = "reset", !.pc = "done",
                                        !.reply = [success |-> TRUE, session_id |-> session_id]]
                    ELSE IF calls[d].op = "chat" /\ calls[d].pc # "done"
                         THEN [calls[d] EXCEPT !.reset_seen = TRUE]
                         ELSE calls[d]]
    /\ UNCHANGED sessionRest

(***************************************************************************)
(* The simplifier: the explanation cache of the API module                  *)
(* (src/simplifier/api.py; src/term_simplifier/api.py has the same handlers *)
(* around a service call) and the cache of SimplifierService                *)
(* (src/simplifier/service.py).  A dict is the sequence of its items in     *)
(* insertion order.                                                         *)
(***************************************************************************)
SimplifierRequests == {"q1", "q2"}

NoReply == [kind |-> "none"]

NoRequest == [op |-> "none", pc |-> "idle", term |-> <<>>, reply |-> NoReply]

SimplifierIdle ==
    /\ requests = [q \in SimplifierRequests |-> NoRequest]
    /\ explanation_cache = <<>>
    /\ service_cache = <<>>

ServiceIdle == SessionIdle /\ SimplifierIdle

\* key in d
CacheHas(cache, key) == \E i \in 1..Len(cache) : cache[i].key = key

\* d[key]
CacheGet(cache, key) == cache[CHOOSE i \in 1..Len(cache) : cache[i].key = key].value

\* d[key] = value: a new key goes to the end, a known key keeps its place
CachePut(cache, key, value) ==
    IF CacheHas(cache, key)
    THEN [i \in 1..Len(cache) |->
             IF cache[i].key = key THEN [key |-> key, value |-> value] ELSE cache[i]]
    ELSE Append(cache, [key |-> key, value |-> value])

\* len(d)
CacheSize(cache) == Cardinality({cache[i].key : i \in 1..Len(cache)})

\* list(d.keys())
CacheKeys(cache) == [i \in 1..Len(cache) |-> cache[i].key]

\* term.lower() of the API, and term.strip().lower() of the service
KeyMutant(term) == Strip(term)

CacheKey(term) == Lower(Strip(term))

\* GET /simplifier/cache/stats
get_cache_stats(cache) ==
    [total_cached_terms |-> CacheSize(cache), cached_terms |-> CacheKeys(cache)]

\* response.choices[0].message.content.strip()
Explanation(content) == Strip(content)

ApologyText == [kind |-> "sorry"]

\* everything a request of the simplifier leaves alone
simplifierRest ==
    <<profile, risk, standaloneVars, calls, reqVars, rankVars, execVars, chatVars>>

\* a slot takes a new request once the response of its last one is out
SlotFree(q) == requests[q].pc = "idle"

\* the response has been sent: the slot is free again
Delivered(q) ==
    /\ requests[q].pc = "done"
    /\ requests' = [requests EXCEPT ![q] = NoRequest]
    /\ UNCHANGED <<explanation_cache, service_cache, simplifierRest>>

Answered(op, term, reply) == [op |-> op, pc |-> "done", term |-> term, reply |-> reply]

\* POST /simplifier/explain up to the provider call: 400 for an empty term,
\* the cached explanation for a known key, else the call is awaited
ExplainArrives(q, raw_term) ==
    /\ SlotFree(q)
    /\ LET term == Strip(raw_term)
       IN  requests' = [requests EXCEPT ![q] =
               IF term = <<>>
               THEN Answered("explain", term, [kind |-> "error", status |-> 400])
               ELSE IF CacheHas(explanation_cache, CacheKey(term))
               THEN Answered("explain", term,
                             [kind |-> "explanation", term |-> term,
                              explanation |-> CacheGet(explanation_cache, CacheKey(term)),
                              cached |-> TRUE])
               ELSE [op |-> "explain", pc |-> "awaiting", term |-> term, reply |-> NoReply]]
    /\ UNCHANGED <<explanation_cache, service_cache, simplifierRest>>

\* the provider call returns: the explanation is cached and sent
ExplainReturns(q, content) ==
    /\ requests[q].op = "explain" /\ requests[q].pc = "awaiting"
    /\ explanation_cache' =
           CachePut(explanation_cache, CacheKey(requests[q].term), Explanation(content))
    /\ requests' = [requests EXCEPT ![q] =
           Answered("explain", requests[q].term,
                    [kind |-> "explanation", term |-> requests[q].term,
                     explanation |-> Explanation(content), cached |-> FALSE])]
    /\ UNCHANGED <<service_cache, simplifierRest>>

\* the provider call raises: 500
ExplainFails(q) ==
    /\ requests[q].op = "explain" /\ requests[q].pc = "awaiting"
    /\ requests' = [requests EXCEPT ![q] =
           Answered("explain", requests[q].term, [kind |-> "error", status |-> 500])]
    /\ UNCHANGED <<explanation_cache, service_cache, simplifierRest>>

CacheStats(q) ==
    /\ SlotFree(q)
    /\ requests' = [requests EXCEPT ![q] =
           Answered("stats", <<>>, [kind |-> "stats", stats |-> get_cache_stats(explanation_cache)])]
    /\ UNCHANGED <<explanation_cache, service_cache, simplifierRest>>

\* DELETE /simplifier/cache/clear
ClearCacheMutant(q) ==
    /\ SlotFree(q)
    /\ explanation_cache' = <<>>
    /\ requests' = [requests EXCEPT ![q] =
           Answered("clear", <<>>, [kind |-> "cleared", status |-> "success",
                                    removed |-> CacheSize(explanation_cache')])]
    /\ UNCHANGED <<service_cache, simplifierRest>>

ClearCache(q) ==
    /\ SlotFree(q)
    /\ explanation_cache' = <<>>
    /\ requests' = [requests EXCEPT ![q] =
           Answered("clear", <<>>, [kind |-> "cleared", status |-> "success",
                                    removed |-> CacheSize(explanation_cache)])]
    /\ UNCHANGED <<service_cache, simplifierRest>>

\* SimplifierService.simplify_term up to the provider call
SimplifyArrives(q, raw_term) ==
    /\ SlotFree(q)
    /\ LET term == CacheKey(raw_term)
       IN  requests' = [requests EXCEPT ![q] =
               IF CacheHas(service_cache, term)
               THEN Answered("simplify", term,
                             [kind |-> "text", text |-> CacheGet(service_cache, term)])
               ELSE [op |-> "simplify", pc |-> "awaiting", term |-> term, reply |-> NoReply]]
    /\ UNCHANGED <<explanation_cache, service_cache, simplifierRest>>

SimplifyReturns(q, content) ==
    /\ requests[q].op = "simplify" /\ requests[q].pc = "awaiting"
    /\ service_cache' = CachePut(service_cache, requests[q].term, Explanation(content))
    /\ requests' = [requests EXCEPT ![q] =
           Answered("simplify", requests[q].term,
                    [kind |-> "text", text |-> Explanation(content)])]
    /\ UNCHANGED <<explanation_cache, simplifierRest>>

\* the except clause of simplify_term returns the apology
SimplifyFailsMutant(q) ==
    /\ requests[q].op = "simplify" /\ requests[q].pc = "awaiting"
    /\ service_cache' = CachePut(service_cache, requests[q].term, <<>>)
    /\ requests' = [requests EXCEPT ![q] =
           Answered("simplify", requests[q].term, ApologyText)]
    /\ UNCHANGED <<explanation_cache, simplifierRest>>

SimplifyFails(q) ==
    /\ requests[q].op = "simplify" /\ requests[q].pc = "awaiting"
    /\ requests' = [requests EXCEPT ![q] =
           Answered("simplify", requests[q].term, ApologyText)]
    /\ UNCHANGED <<explanation_cache, service_cache, simplifierRest>>

\* SimplifierService.clear_cache
ServiceClear(q) ==
    /\ SlotFree(q)
    /\ service_cache' = <<>>
    /\ requests' = [requests EXCEPT ![q] =
           Answered("service_clear", <<>>,
                    [kind |-> "count", removed |-> CacheSize(service_cache)])]
    /\ UNCHANGED <<explanation_cache, simplifierRest>>
(***************************************************************************)
(* Scorer inputs                                                            *)
(***************************************************************************)
MaxYears == 13          \* largest number of years of experience drawn

UrlChoices ==
    { <<>>,
      <<"h","t","t","p","s",":","/","/","w","w","w",".","u","p","w","o","r","k",".","c","o","m","/","f","r","e","e","l","a","n","c","e","r","s","/","j","a","n","e">>,
      <<"h","t","t","p","s",":","/","/","l","i","n","k","e","d","i","n",".","c","o","m","/","i","n","/","j","a","n","e">>,
      <<"h","t","t","p","s",":","/","/","g","i","t","h","u","b",".","c","o","m","/","j","a","n","e">> }

RatingValues == { <<"4",".","5">>, <<"5">>, <<"3",".","2">>, <<"1","0">>, <<"0">> }

RatingChoices == {NotSpecified, Unknown} \cup {v \o OutOfFive : v \in RatingValues}

ExperienceChoices ==
    {NotSpecified, Unknown} \cup {IntToStr(y) \o YearsSuffix : y \in 0..MaxYears}

SkillChoices ==
    {Prefix(skill_patterns, n) : n \in 0..Len(skill_patterns)}
        \cup {Prefix(standalone_skills, n) : n \in 0..Len(standalone_skills)}
        \cup {<<"AI">>, <<"React", "Machine Learning">>}

NotRanked == [done |-> FALSE, top_talent |-> <<>>]

NotScored == [chatbot |-> 0, standalone |-> 0, standalone_raw |-> 0, scored |-> {}]

NoProfile ==
    [skills |-> <<>>, url |-> <<>>, rating |-> NotSpecified, experience |-> NotSpecified]

\* values of the variables a specification does not use
StandaloneIdle ==
    /\ raw_search_results = <<>>
    /\ evaluated_developers = <<>>
    /\ final_recommendations = <<>>
    /\ current_step = "initialized"

ScoreIdle == profile = NoProfile /\ risk = NotScored /\ StandaloneIdle /\ ServiceIdle

ReqIdle == text = <<>> /\ requirements = NoRequirements

RankIdle ==
    /\ talent_profiles = <<>>
    /\ ranking = NotRanked
    /\ search_results = <<>>
    /\ extract_pc = "idle"

ExecIdle ==
    /\ search_queries = <<>>
    /\ qi = 1
    /\ all_results = <<>>
    /\ responses = <<>>
    /\ events = <<>>
    /\ exec_pc = "idle"

NoIntent == [kind |-> "none", is_talent_request |-> "missing", skills_ok |-> TRUE]

ChatIdle ==
    /\ chat_pc = "idle"
    /\ user_message = <<>>
    /\ conversation_history = <<>>
    /\ search_intent = NoIntent
    /\ talent_results = <<>>
    /\ response = NoResponse

ProfileChoices ==
    [skills : SkillChoices, url : UrlChoices,
     rating : RatingChoices, experience : ExperienceChoices]

InitScore ==
    /\ profile \in ProfileChoices
    /\ risk = NotScored
    /\ StandaloneIdle /\ ServiceIdle
    /\ ReqIdle /\ RankIdle /\ ExecIdle /\ ChatIdle

ScoreChatbot ==
    /\ "chatbot" \notin risk.scored
    /\ risk' = [risk EXCEPT !.chatbot =
                   ChatbotRiskScore(profile.skills, profile.url,
                                    profile.rating, profile.experience),
                            !.scored = @ \cup {"chatbot"}]
    /\ UNCHANGED <<profile, standaloneVars, serviceVars, reqVars, rankVars, execVars, chatVars>>

ScoreStandalone ==
    /\ "standalone" \notin risk.scored
    /\ risk' = [risk EXCEPT !.standalone = calculate_risk_score(profile),
                            !.standalone_raw = StandaloneRawHalves(profile),
                            !.scored = @ \cup {"standalone"}]
    /\ UNCHANGED <<profile, standaloneVars, serviceVars, reqVars, rankVars, execVars, chatVars>>

NextScore == ScoreChatbot \/ ScoreStandalone

SpecScore == InitScore /\ [][NextScore]_vars

\* C1: every risk score produced by the chatbot scorer and by the standalone
\* scorer is an integer between 1 and 5, for every profile and URL, the
\* all-defaults and the all-positive profile included.
RiskScoreInRange ==
    /\ "chatbot" \in risk.scored => risk.chatbot \in 1..5
    /\ "standalone" \in risk.scored => risk.standalone \in 1..5

\* the all-positive profile has been scored by both scorers and hit the lower clamp
RiskScoreWitness ==
    /\ Len(profile.skills) >= 6
    /\ "AI" \in Range(profile.skills)
    /\ Contains(profile.url, UpworkDomain)
    /\ StartsWith(profile.rating, <<"5">>)
    /\ Contains(profile.experience, <<"7">>)
    /\ risk.scored = {"chatbot", "standalone"}
    /\ risk.chatbot = 1
    /\ risk.standalone = 1

(***************************************************************************)
(* Requirement extraction applied to every bounded request text             *)
(***************************************************************************)
InitReq ==
    /\ text \in RequestTexts
    /\ requirements = NoRequirements
    /\ ScoreIdle /\ RankIdle /\ ExecIdle /\ ChatIdle

Decompose ==
    /\ requirements = NoRequirements
    /\ requirements' = decompose_requirements(text)
    /\ UNCHANGED <<text, scoreVars, rankVars, execVars, chatVars>>

NextReq == Decompose

SpecReq == InitReq /\ [][NextReq]_vars

\* C2: the extracted quantity is an integer between 1 and 10: the first
\* integer of the text clamped to [1,10], and 5 when the text has no integer.
QuantityInRange ==
    requirements # NoRequirements =>
        /\ requirements.quantity \in 1..10
        /\ requirements.quantity =
               (IF FirstDigitRun(text) = <<>> THEN 5
                ELSE Max(1, Min(10, StrToInt(FirstDigitRun(text)))))

(***************************************************************************)
(* Ranking applied to every bounded list of extracted profiles              *)
(***************************************************************************)
MaxProfiles == 3        \* longest list of profiles handed to the ranker

RankSkillCounts == {0, 5, 9}

\* profiles as the extractor builds them: the skills found, in vocabulary
\* order, and the risk score the extractor computed for them
TalentPool ==
    {[skill_keywords |-> Prefix(skill_patterns, n),
      risk_score |-> ChatbotRiskScore(Prefix(skill_patterns, n), u, r, e)] :
        n \in RankSkillCounts, u \in UrlChoices,
        r \in {NotSpecified, <<"4",".","5","/","5">>},
        e \in {<<"5"," ","y","e","a","r","s">>}}

TalentLists ==
    UNION {{[i \in 1..n |-> [id |-> i,
                             skill_keywords |-> f[i].skill_keywords,
                             risk_score |-> f[i].risk_score]] :
                f \in [1..n -> TalentPool]} : n \in 0..MaxProfiles}

RankTexts ==
    {JoinWords(ws) : ws \in { << <<"f","i","n","d">> >>,
                              << <<"0">> >>,
                              << <<"2">>, <<"R","e","a","c","t">> >>,
                              << <<"v","7">>, <<"m","e","r","n">> >>,
                              << <<"1","2">>, <<"R","e","a","c","t">> >> }}

InitRank ==
    /\ text \in RankTexts
    /\ requirements = decompose_requirements(text)
    /\ talent_profiles \in TalentLists
    /\ ranking = NotRanked
    /\ search_results = <<>>
    /\ extract_pc = "idle"
    /\ ScoreIdle /\ ExecIdle /\ ChatIdle

Rank ==
    /\ ~ranking.done
    /\ ranking' = [done |-> TRUE,
                   top_talent |-> rank_and_filter_talent(talent_profiles, requirements)]
    /\ UNCHANGED <<talent_profiles, search_results, extract_pc, scoreVars, reqVars, execVars, chatVars>>

NextRank == Rank

SpecRank == InitRank /\ [][NextRank]_vars

\* positions of the input profiles in the ranker's output
KeptIds == {ranking.top_talent[i].id : i \in 1..Len(ranking.top_talent)}

PositionOf(id) == CHOOSE i \in 1..Len(ranking.top_talent) : ranking.top_talent[i].id = id

\* C3: the ranker returns exactly min(number of input profiles, quantity)
\* profiles, so never more than it was given.
RankLength ==
    ranking.done =>
        /\ Len(ranking.top_talent) = Min(Len(talent_profiles), requirements.quantity)
        /\ Len(ranking.top_talent) <= Len(talent_profiles)

\* a list longer than the requested quantity has been cut down to it
RankLengthWitness ==
    /\ ranking.done
    /\ requirements.quantity = 2
    /\ Len(talent_profiles) = 3
    /\ Len(ranking.top_talent) = 2

ClaimedMatchTenths(talent) ==
    4 * talent.risk_score
        + 4 * Max(0, 5 - Cardinality({s \in Range(talent.skill_keywords) :
                                         \E q \in requirements.skills :
                                             Lower(SkillChars[q]) = Lower(SkillChars[s])}))
        + Max(0, 10 - Len(talent.skill_keywords))

\* C5: the ranker's output is in non-decreasing order of the weighted match
\* score, and no profile left out has a smaller match score than a profile kept.
RankOrdered ==
    ranking.done =>
        /\ \A i, j \in 1..Len(ranking.top_talent) :
               i < j => ClaimedMatchTenths(ranking.top_talent[i])
                           <= ClaimedMatchTenths(ranking.top_talent[j])
        /\ \A i, j \in 1..Len(talent_profiles) :
               (i \in KeptIds /\ j \notin KeptIds)
                   => ClaimedMatchTenths(talent_profiles[i])
                          <= ClaimedMatchTenths(talent_profiles[j])

\* a worse profile placed first in the input was moved behind a better one,
\* and the worst of three was cut off
RankOrderedWitness ==
    /\ ranking.done
    /\ Len(talent_profiles) = 3
    /\ Len(ranking.top_talent) = 2
    /\ ClaimedMatchTenths(talent_profiles[1]) > ClaimedMatchTenths(talent_profiles[2])
    /\ ClaimedMatchTenths(talent_profiles[3]) > ClaimedMatchTenths(talent_profiles[1])
    /\ ranking.top_talent[1].id = 2
    /\ ranking.top_talent[2].id = 1

(***************************************************************************)
(* The search executor run on bounded query lists against every provider    *)
(* behaviour                                                                *)
(***************************************************************************)
MaxQueries == 3         \* longest query list handed to the executor
MaxResults == 2         \* most results in one provider response

ProviderResults == UNION {[1..n -> Documents] : n \in 0..MaxResults}

ExecTexts == {JoinWords(ws) : ws \in { << <<"f","i","n","d">> >>,
                                      << <<"2">>, <<"R","e","a","c","t">> >> }}

\* prefixes of the query lists the generator builds
ExecQueryLists ==
    UNION {{SliceTo(generate_search_queries(order, reqs.seniority), n) :
                n \in 0..MaxQueries, order \in SkillOrders(reqs.skills)} :
           reqs \in {decompose_requirements(t) : t \in ExecTexts}}

InitExec ==
    /\ search_queries \in ExecQueryLists
    /\ qi = 1
    /\ all_results = <<>>
    /\ responses = <<>>
    /\ events = <<>>
    /\ exec_pc = "loop"
    /\ ScoreIdle /\ ReqIdle /\ RankIdle /\ ChatIdle

ExecStep ==
    /\ \/ \E kind \in {"raise", "malformed"} : SearchFails(kind)
       \/ \E results \in ProviderResults : SearchSucceeds(results)
       \/ SleepDone
       \/ ExecReturn
    /\ UNCHANGED <<scoreVars, reqVars, rankVars, chatVars>>

NextExec == ExecStep

SpecExec == InitExec /\ [][NextExec]_vars

\* the results in the aggregate that carry search_index i, annotations removed
ResultsOfQuery(i) ==
    LET mine == SelectSeq(all_results, LAMBDA r : r.search_index = i)
    IN  [j \in 1..Len(mine) |->
            [title |-> mine[j].title, url |-> mine[j].url, content |-> mine[j].content]]

\* C6: a failing provider call is caught: its query contributes no result,
\* every other query is still issued, and the results of every query that
\* succeeded are in the returned aggregate.
FailureIsolated ==
    exec_pc = "done" =>
        /\ Len(responses) = Len(search_queries)
        /\ \A i \in 1..Len(responses) :
               IF responses[i].kind = "ok"
               THEN ResultsOfQuery(i) = responses[i].results
               ELSE ResultsOfQuery(i) = <<>>

\* the executor has returned after a failed call between two successful ones
FailureIsolatedWitness ==
    /\ exec_pc = "done"
    /\ Len(search_queries) = 3
    /\ responses[1].kind = "ok" /\ Len(responses[1].results) = 1
    /\ responses[2].kind = "raise"
    /\ responses[3].kind = "ok" /\ Len(responses[3].results) = 2
    /\ Len(all_results) = 3

\* the aggregate the claim describes after n provider calls
RECURSIVE ClaimedAggregate(_)
ClaimedAggregate(n) ==
    IF n = 0 THEN <<>>
    ELSE ClaimedAggregate(n - 1) \o
         [j \in 1..Len(responses[n].results) |->
             [title |-> responses[n].results[j].title,
              url |-> responses[n].results[j].url,
              content |-> responses[n].results[j].content,
              search_query |-> search_queries[n],
              search_index |-> n]]

\* C9: at every moment the aggregate holds the results in query order and,
\* within a query, in provider order, each carrying the query string that
\* produced it and that query's 1-based position.
AggregateOrdered == all_results = ClaimedAggregate(Len(responses))

\* two queries have each contributed results, two different documents for the second
AggregateOrderedWitness ==
    /\ exec_pc = "done"
    /\ Len(responses) >= 2
    /\ Len(responses[1].results) = 1
    /\ Len(responses[2].results) = 2
    /\ responses[2].results[1] # responses[2].results[2]
    /\ all_results[3].search_index = 2

\* C10: one provider call per query, in query order, and a pause between
\* every two consecutive provider calls.
PauseBetweenCalls ==
    exec_pc = "done" =>
        /\ SelectSeq(events, LAMBDA e : e.kind = "call")
               = [i \in 1..Len(search_queries) |-> [kind |-> "call", index |-> i]]
        /\ \A p \in 1..(Len(events) - 1) :
               ~(events[p].kind = "call" /\ events[p + 1].kind = "call")

(***************************************************************************)
(* One chat() request against every behaviour of the language model and of  *)
(* the search provider, started on an empty or a non-empty history          *)
(***************************************************************************)
ChatMessages == { <<"f","i","n","d"," ","2"," ","e","x","p","r","e","s","s"," ","d","e","v","s">>, <<"f","i","n","d"," ","d","e","v","s">>, <<"h","i"," ","t","h","e","r","e">> }

InitialHistories ==
    { <<>>,
      <<[role |-> "user", content |-> [kind |-> "text", text |-> <<"h","i"," ","t","h","e","r","e">>]],
        [role |-> "assistant", content |-> [kind |-> "llm"]]>> }

\* provider responses drawn while a chat request runs
ChatProviderResults ==
    { <<>>, <<CHOOSE d \in Documents : Len(d.content) > 0>> }

InitChat ==
    /\ chat_pc = "idle"
    /\ user_message = <<>>
    /\ conversation_history \in InitialHistories
    /\ search_intent = NoIntent
    /\ talent_results = <<>>
    /\ response = NoResponse
    /\ ScoreIdle /\ ReqIdle /\ RankIdle /\ ExecIdle

ChatStep ==
    /\ \/ \E message \in ChatMessages : ChatStart(message)
       \/ \E outcome \in IntentOutcomes : IntentGeneral(outcome)
       \/ \E outcome \in IntentOutcomes : IntentRaises(outcome)
       \/ /\ chat_pc = "intent"
          /\ \E outcome \in IntentOutcomes :
                 \E order \in SkillOrders(decompose_requirements(user_message).skills) :
                     IntentTalent(outcome, order)
       \/ \E outcome \in IntentOutcomes : IntentTalentFault(outcome)
       \/ SearchDone
       \/ \E ok \in BOOLEAN : FormatReturn(ok)
       \/ \E ok \in BOOLEAN : GeneralReturn(ok)
    /\ UNCHANGED scoreVars

ChatExecStep ==
    /\ \/ SearchFails("raise")
       \/ \E results \in ChatProviderResults : SearchSucceeds(results)
       \/ SleepDone
       \/ ExecReturn
    /\ UNCHANGED <<scoreVars, reqVars, rankVars, chatVars>>

NextChat == ChatStep \/ ChatExecStep

SpecChat == InitChat /\ [][NextChat]_vars

\* C7: when every search query of a talent request has failed, the candidate
\* list is empty and the reply is the no-candidates message with
\* search_performed true: no error candidate, no apology.
TotalOutageIsNoMatches ==
    (/\ chat_pc = "done"
     /\ exec_pc = "done"
     /\ Len(responses) = Len(search_queries)
     /\ \A i \in 1..Len(responses) : responses[i].kind # "ok")
    => /\ response.message = NoCandidatesMessage
       /\ response.search_performed
       /\ response.talent_results = <<>>
       /\ response.search_summary = 0
       /\ ranking.top_talent = <<>>

\* a talent request whose five provider calls all raised has been answered
TotalOutageWitness ==
    /\ chat_pc = "done"
    /\ exec_pc = "done"
    /\ Len(responses) = 5
    /\ \A i \in 1..5 : responses[i].kind = "raise"
    /\ response.message = NoCandidatesMessage

\* C8: no exception leaves chat(): every request ends with a ChatbotResponse
\* that is a normal reply, a reply with exactly one "System Error" candidate,
\* or an apology with search_performed false.
ChatAlwaysReplies ==
    /\ chat_pc # "raised"
    /\ chat_pc = "done" =>
          \/ /\ response.message.kind = "apology"
             /\ ~response.search_performed
             /\ response.talent_results = <<>>
          \/ /\ response.message.kind \in {"llm", "template"}
             /\ response.search_performed
             /\ response.talent_results = <<ErrorTalent>>
          \/ /\ response.message.kind
                    \in {"llm", "template", "no_candidates", "general_fallback"}
             /\ \A i \in 1..Len(response.talent_results) :
                    response.talent_results[i].title # ErrorTalent.title

\* an exception raised while the intent was read has become an apology
ChatAlwaysRepliesWitness ==
    /\ chat_pc = "done"
    /\ response.message.kind = "apology"
    /\ response.message.error = "KeyError"
    /\ ~response.search_performed

\* the classification failed, or its output is not the expected object
ClassificationFailed(intent) ==
    \/ intent.kind \in {"fallback", "not_object"}
    \/ intent.is_talent_request = "missing"

HandledAsTalentRequest ==
    \/ chat_pc \in {"search", "format"}
    \/ chat_pc = "done" /\ response.search_performed

HandledAsGeneralChat ==
    \/ chat_pc = "general"
    \/ /\ chat_pc = "done"
       /\ ~response.search_performed
       /\ response.message.kind \in {"llm", "general_fallback"}

\* C19: when the classification call fails or its output is malformed, is
\* unparseable or lacks is_talent_request, the message is handled as a talent
\* request if and only if its lower-cased text holds one of the keywords.
KeywordFallback ==
    (search_intent # NoIntent /\ ClassificationFailed(search_intent)) =>
        IF KeywordDetection(user_message)
        THEN HandledAsTalentRequest
        ELSE HandledAsGeneralChat

\* the request went down the talent branch of chat()
ClassifiedTalent ==
    /\ chat_pc = "done"
    /\ search_intent.kind \in {"json", "fallback"}
    /\ search_intent.is_talent_request = "true"

\* the list _search_talent_with_tavily builds from the user message and
\* the provider's responses
ListFromSearch ==
    rank_and_filter_talent(extract_talent_profiles(ClaimedAggregate(Len(responses))),
                           decompose_requirements(user_message))

\* C29: for a message classified as a talent request the candidate list and
\* the search summary are those the user message and the provider's
\* responses give, whatever the skills (seniority, quantity, platform) field
\* of the classification holds; a search that faulted returns the one error
\* candidate.
IntentFieldsDoNotSteer ==
    ClassifiedTalent =>
        /\ response.search_performed
        /\ response.search_summary = Len(response.talent_results)
        /\ IF exec_pc = "done"
           THEN response.talent_results = ListFromSearch
           ELSE response.talent_results = <<ErrorTalent>>

(***************************************************************************)
(* The two extractors and the standalone agents on one provider result list *)
(***************************************************************************)
MaxExtract == 2         \* longest result list built from ListDocuments

JaneTitle == <<"J","a","n","e"," ","S","m","i","t","h"," ","-"," ","S","e","n","i","o","r"," ","D","e","v">>

JaneUrl == <<"h","t","t","p","s",":","/","/","w","w","w",".","u","p","w","o","r","k",".","c","o","m","/","f","r","e","e","l","a","n","c","e","r","s","/","j","a","n","e">>

\* the three patterns in every order
JaneContents ==
    { <<"5"," ","y","e","a","r","s"," ","o","f"," ","e","x","p","e","r","i","e","n","c","e",","," ","4",".","5"," ","s","t","a","r","s",","," ","$","7","5","/","h","o","u","r">>,
      <<"5"," ","y","e","a","r","s"," ","o","f"," ","e","x","p","e","r","i","e","n","c","e",","," ","$","7","5","/","h","o","u","r",","," ","4",".","5"," ","s","t","a","r","s">>,
      <<"4",".","5"," ","s","t","a","r","s",","," ","5"," ","y","e","a","r","s"," ","o","f"," ","e","x","p","e","r","i","e","n","c","e",","," ","$","7","5","/","h","o","u","r">>,
      <<"4",".","5"," ","s","t","a","r","s",","," ","$","7","5","/","h","o","u","r",","," ","5"," ","y","e","a","r","s"," ","o","f"," ","e","x","p","e","r","i","e","n","c","e">>,
      <<"$","7","5","/","h","o","u","r",","," ","5"," ","y","e","a","r","s"," ","o","f"," ","e","x","p","e","r","i","e","n","c","e",","," ","4",".","5"," ","s","t","a","r","s">>,
      <<"$","7","5","/","h","o","u","r",","," ","4",".","5"," ","s","t","a","r","s",","," ","5"," ","y","e","a","r","s"," ","o","f"," ","e","x","p","e","r","i","e","n","c","e">> }

JaneDocuments == {[title |-> JaneTitle, url |-> JaneUrl, content |-> c] : c \in JaneContents}

YearTexts == { <<"0">>, <<"1">>, <<"2">>, <<"4">>, <<"5">>, <<"7">>, <<"8">>, <<"0","8">>, <<"1","2">> }

YearDocuments ==
    {[title |-> <<"A","l","e","x"," ","K","i","m"," ","|"," ","D","e","v">>, url |-> <<"h","t","t","p","s",":","/","/","g","i","t","h","u","b",".","c","o","m","/","a","l","e","x">>,
      content |-> y \o <<" ","y","e","a","r","s"," ","e","x","p">>] : y \in YearTexts}

\* results that lack a key or carry None under it
FaultyDocuments ==
    {[title |-> JaneTitle, url |-> JaneUrl, content |-> <<"4"," ","y","e","a","r","s"," ","e","x","p">>,
      absent |-> f.absent, null |-> f.null] :
         f \in {[absent |-> {"title"}, null |-> {}],
                [absent |-> {"content", "url"}, null |-> {}],
                [absent |-> {}, null |-> {"title"}],
                [absent |-> {}, null |-> {"url"}]}}

\* the number in front of "stars", "rating" or "/5"
RatingTexts ==
    { <<"0"," ","s","t","a","r","s">>, <<"5"," ","s","t","a","r","s">>, <<"3",".","7","/","5">>, <<"5",".","0"," ","r","a","t","i","n","g">>, <<"5",".","5"," ","s","t","a","r","s">>, <<"9"," ","r","a","t","i","n","g">>, <<"4","7"," ","s","t","a","r","s">>, <<"1","0","/","5">> }

RatingDocuments ==
    {[title |-> <<"A","l","e","x"," ","K","i","m"," ","|"," ","D","e","v">>, url |-> <<"h","t","t","p","s",":","/","/","g","i","t","h","u","b",".","c","o","m","/","a","l","e","x">>, content |-> r] : r \in RatingTexts}

ListDocuments == Documents \cup FaultyDocuments

YearDocument(y) ==
    [title |-> <<"A","l","e","x"," ","K","i","m"," ","|"," ","D","e","v">>, url |-> <<"h","t","t","p","s",":","/","/","g","i","t","h","u","b",".","c","o","m","/","a","l","e","x","/">> \o y,
     content |-> y \o <<" ","y","e","a","r","s"," ","e","x","p">>]

\* the provider is asked for max_results=10: lists longer than the five
\* results the assessment looks at, the last of them with a None url
LongResults ==
    { <<YearDocument(<<"8">>), YearDocument(<<"1">>), YearDocument(<<"5">>), YearDocument(<<"2">>),
        YearDocument(<<"7">>), YearDocument(<<"4">>)>>,
      <<YearDocument(<<"1">>), YearDocument(<<"2">>), YearDocument(<<"4">>), YearDocument(<<"5">>),
        YearDocument(<<"7">>), YearDocument(<<"8">>), YearDocument(<<"0">>)>>,
      <<YearDocument(<<"1">>), YearDocument(<<"2">>), YearDocument(<<"4">>),
        [title |-> JaneTitle, url |-> JaneUrl, content |-> <<"4"," ","y","e","a","r","s"," ","e","x","p">>,
         absent |-> {}, null |-> {"url"}]>> }

ExtractInputs ==
    UNION {[1..n -> ListDocuments] : n \in 0..MaxExtract}
        \cup {<<d>> : d \in YearDocuments \cup JaneDocuments \cup RatingDocuments}
        \cup LongResults

InitExtract ==
    /\ search_results \in ExtractInputs
    /\ extract_pc = "idle"
    /\ talent_profiles = <<>>
    /\ ranking = NotRanked
    /\ ScoreIdle /\ ReqIdle /\ ExecIdle /\ ChatIdle

\* _extract_talent_profiles
Extract ==
    /\ extract_pc = "idle"
    /\ talent_profiles' = extract_talent_profiles(search_results)
    /\ extract_pc' = "done"
    /\ UNCHANGED <<ranking, search_results, scoreVars, reqVars, execVars, chatVars>>

\* the preview loop of tavily_search_agent slices the title and the content
\* of the first three results
PreviewRaises(results) ==
    \E i \in 1..Min(3, Len(results)) :
        \E key \in {"title", "content"} :
            ~Absent(results[i], key) /\ IsNull(results[i], key)

\* search_refinement_agent: picks the first of its fixed queries; nothing
\* in it can raise
SearchRefinement ==
    /\ current_step = "initialized"
    /\ current_step' = "search_refinement_complete"
    /\ UNCHANGED <<raw_search_results, evaluated_developers, final_recommendations, profile,
                   risk, serviceVars, reqVars, rankVars, execVars, chatVars>>

\* tavily_search_agent: the provider answers with the result list (ok) or
\* raises; an exception leaves an empty result list
TavilySearch(ok) ==
    /\ current_step = "search_refinement_complete"
    /\ IF ok /\ ~PreviewRaises(search_results)
       THEN /\ raw_search_results' = search_results
            /\ current_step' = "tavily_search_complete"
       ELSE /\ raw_search_results' = <<>>
            /\ current_step' = "tavily_search_error"
    /\ UNCHANGED <<evaluated_developers, final_recommendations, profile, risk, serviceVars,
                   reqVars, rankVars, execVars, chatVars>>

\* risk_assessment_agent; an exception of the loop leaves the workflow
RiskAssessment ==
    /\ current_step \in {"tavily_search_complete", "tavily_search_error"}
    /\ IF AssessmentRaises(raw_search_results)
       THEN /\ current_step' = "raised"
            /\ UNCHANGED evaluated_developers
       ELSE /\ evaluated_developers' = EvaluatedDevelopers(raw_search_results)
            /\ current_step' = "risk_assessment_complete"
    /\ UNCHANGED <<raw_search_results, final_recommendations, profile, risk, serviceVars,
                   reqVars, rankVars, execVars, chatVars>>

\* final_recommendation_agent
Recommend ==
    /\ current_step = "risk_assessment_complete"
    /\ final_recommendations' = top_5(evaluated_developers)
    /\ current_step' = IF evaluated_developers = <<>>
                       THEN "final_recommendation_complete"
                       ELSE "recommendations_complete"
    /\ UNCHANGED <<raw_search_results, evaluated_developers, profile, risk, serviceVars,
                   reqVars, rankVars, execVars, chatVars>>

NextExtract ==
    \/ Extract
    \/ SearchRefinement
    \/ \E ok \in BOOLEAN : TavilySearch(ok)
    \/ RiskAssessment
    \/ Recommend

SpecExtract == InitExtract /\ [][NextExtract]_vars

\* C11: one profile per search result, in result order, whatever the result
\* lacks or carries as None.
OneProfilePerResult ==
    extract_pc = "done" =>
        /\ Len(talent_profiles) = Len(search_results)
        /\ \A i \in 1..Len(talent_profiles) : talent_profiles[i].id = i

\* seniority and experience of a Talent against the experience match m of
\* the content it was built from
SeniorityAsClaimed(talent, m, y) ==
    IF m.found
    THEN /\ talent.seniority = (IF y < 2 THEN "Junior"
                                ELSE IF 2 <= y /\ y < 5 THEN "Mid"
                                ELSE IF 5 <= y /\ y < 8 THEN "Senior"
                                ELSE "Lead")
         /\ talent.experience_years = IntToStr(y) \o YearsSuffix
    ELSE /\ talent.seniority = "Mid"
         /\ talent.experience_years = NotSpecified

ContentOf(result) == GetField(result, "content", <<>>)

\* C14: with the experience pattern matching y years the seniority is Junior
\* below 2, Mid below 5, Senior below 8 and Lead from 8 on and the experience
\* is "<y> years"; without a match they are Mid and 'Not specified'.
YearsDecideSeniority ==
    extract_pc = "done" =>
        \A k \in 1..Len(talent_profiles) :
            SeniorityAsClaimed(
                talent_profiles[k],
                ExperienceMatch(Lower(ContentOf(search_results[talent_profiles[k].id]))),
                StrToInt(ExperienceMatch(
                    Lower(ContentOf(search_results[talent_profiles[k].id]))).group))

\* a result with 5 years of experience has become a Senior profile
YearsDecideSeniorityWitness ==
    /\ extract_pc = "done"
    /\ Len(search_results) = 1
    /\ ContentOf(search_results[1]) = <<"5"," ","y","e","a","r","s"," ","e","x","p">>
    /\ Len(talent_profiles) = 1
    /\ talent_profiles[1].seniority = "Senior"
    /\ talent_profiles[1].experience_years = <<"5"," ","y","e","a","r","s">>

IsJaneResult(result) ==
    /\ ~Absent(result, "title") /\ ~Absent(result, "content")
    /\ ~ExtractRaises(result)
    /\ result.title = JaneTitle
    /\ result.content \in JaneContents

\* C15: the result titled "Jane Smith - Senior Dev" whose content holds
\* "5 years of experience", "4.5 stars" and "$75/hour" yields name
\* "Jane Smith", 5 years, Senior, "4.5/5" and "$75/hour".
JaneRoundTrip ==
    /\ extract_pc = "done" =>
        \A k \in 1..Len(talent_profiles) :
            IsJaneResult(search_results[talent_profiles[k].id]) =>
                /\ talent_profiles[k].title = <<"J","a","n","e"," ","S","m","i","t","h">>
                /\ talent_profiles[k].experience_years = <<"5"," ","y","e","a","r","s">>
                /\ talent_profiles[k].seniority = "Senior"
                /\ talent_profiles[k].rating = <<"4",".","5","/","5">>
                /\ talent_profiles[k].hourly_rate = <<"$","7","5","/","h","o","u","r">>
    /\ \A k \in 1..Len(evaluated_developers) :
           IsJaneResult(raw_search_results[evaluated_developers[k].id]) =>
               /\ evaluated_developers[k].name = <<"J","a","n","e"," ","S","m","i","t","h">>
               /\ evaluated_developers[k].experience_years = <<"5"," ","y","e","a","r","s">>
               /\ evaluated_developers[k].rating = <<"4",".","5","/","5">>
               /\ evaluated_developers[k].hourly_rate = <<"$","7","5","/","h","o","u","r">>

\* the Jane Smith result has gone through the extractor
JaneRoundTripWitness ==
    /\ extract_pc = "done"
    /\ Len(search_results) = 1
    /\ IsJaneResult(search_results[1])
    /\ Len(talent_profiles) = 1
    /\ talent_profiles[1].rating = <<"4",".","5","/","5">>
    /\ Len(evaluated_developers) = 1
    /\ evaluated_developers[1].rating = <<"4",".","5","/","5">>

\* the decimal v (digits, optionally a point and digits) is at most 5
DecimalAtMostFive(v) ==
    /\ v # <<>> /\ IsDigit(v[1])
    /\ LET e == DigitRunEnd(v, 1)
           whole == StrToInt(SubSeq(v, 1, e))
       IN  \/ whole < 5
           \/ /\ whole = 5
              /\ \A i \in (e + 1)..Len(v) : v[i] \in {".", "0"}

RatingAsClaimed(rating) ==
    \/ rating = NotSpecified
    \/ /\ Len(rating) > 2
       /\ SubSeq(rating, Len(rating) - 1, Len(rating)) = OutOfFive
       /\ DecimalAtMostFive(SubSeq(rating, 1, Len(rating) - 2))

\* C21: the rating of every extracted profile is 'Not specified' or "<v>/5"
\* with a decimal v between 0 and 5.
RatingWithinScale ==
    /\ extract_pc = "done" =>
           \A k \in 1..Len(talent_profiles) : RatingAsClaimed(talent_profiles[k].rating)
    /\ \A k \in 1..Len(evaluated_developers) :
           RatingAsClaimed(evaluated_developers[k].rating)

\* the values of current_step along the edges search_refinement ->
\* tavily_search -> risk_assessment -> recommendation_agent -> END
WorkflowEdges ==
    { <<"initialized", "search_refinement_complete">>,
      <<"search_refinement_complete", "tavily_search_complete">>,
      <<"search_refinement_complete", "tavily_search_error">>,
      <<"tavily_search_complete", "risk_assessment_complete">>,
      <<"tavily_search_error", "risk_assessment_complete">>,
      <<"risk_assessment_complete", "final_recommendation_complete">>,
      <<"risk_assessment_complete", "recommendations_complete">> }

WorkflowEnded == current_step \in {"final_recommendation_complete", "recommendations_complete"}

FromFirstFive(developer) ==
    /\ developer.id \in 1..Min(5, Len(search_results))
    /\ developer.profile_url = GetField(search_results[developer.id], "url", NoUrl)
    /\ developer.title = GetField(search_results[developer.id], "title", UnknownDeveloper)

AgentsInOrder ==
    [][current_step' # current_step => <<current_step, current_step'>> \in WorkflowEdges]_vars

EmptySearchEndsEmpty ==
    WorkflowEnded /\ raw_search_results = <<>> =>
        evaluated_developers = <<>> /\ final_recommendations = <<>>

AtMostFiveOfFirstFive ==
    /\ Len(final_recommendations) <= 5
    /\ \A k \in 1..Len(final_recommendations) : FromFirstFive(final_recommendations[k])

\* C27: the workflow runs search_refinement, tavily_search, risk_assessment
\* and recommendation once each in this order and ends without an exception;
\* a provider that raises or finds nothing leaves evaluated_developers and
\* final_recommendations empty; final_recommendations has at most five
\* entries, all of the first five search results.
WorkflowRunsToEnd ==
    /\ AgentsInOrder
    /\ [](current_step # "raised")
    /\ []EmptySearchEndsEmpty
    /\ []AtMostFiveOfFirstFive

(***************************************************************************)
(* Requirement extraction followed by query generation                      *)
(***************************************************************************)
QueryTexts ==
    {JoinWords(<<w, s, <<"d","e","v","s">>>>) :
        w \in { <<"f","i","n","d">>, <<"R","e","a","c","t">>, <<"e","x","p","r","e","s","s">>, <<"M","E","R","N">>, <<"d","e","v","o","p","s">> },
        s \in { <<"g","o","o","d">>, <<"s","e","n","i","o","r">>, <<"L","e","a","d">> }}

InitQuery ==
    /\ text \in QueryTexts
    /\ requirements = NoRequirements
    /\ ScoreIdle /\ RankIdle /\ ExecIdle /\ ChatIdle

\* _generate_search_queries on the requirements, their skills in the order
\* the list has in this run
GenerateQueries(order) ==
    /\ requirements # NoRequirements
    /\ search_queries = <<>>
    /\ order \in SkillOrders(requirements.skills)
    /\ search_queries' = generate_search_queries(order, requirements.seniority)
    /\ UNCHANGED <<qi, all_results, responses, events, exec_pc,
                   scoreVars, reqVars, rankVars, chatVars>>

NextQuery ==
    \/ Decompose
    \/ \E order \in SkillOrders(requirements.skills) : GenerateQueries(order)

SpecQuery == InitQuery /\ [][NextQuery]_vars

\* the skill phrase of some order of the skills: its first 4 joined by spaces
HasSkillPhrase(query, skills) ==
    \E order \in SkillOrders(skills) :
        Contains(query, JoinWords([i \in 1..Min(4, Len(order)) |-> SkillChars[order[i]]]))

\* C12: at most 5 queries; the first three are one per platform qualifier in
\* platform-list order and each holds the skill phrase, a role term, the
\* seniority label and the platform qualifier.
PlatformQueriesComplete ==
    search_queries # <<>> =>
        /\ Len(search_queries) <= 5
        /\ Len(search_queries) >= 3
        /\ \A k \in 1..3 :
               /\ Contains(search_queries[k], search_platforms[k])
               /\ \/ Contains(search_queries[k], <<"d","e","v","e","l","o","p","e","r">>)
                  \/ Contains(search_queries[k], <<"s","o","f","t","w","a","r","e"," ","e","n","g","i","n","e","e","r">>)
               /\ Contains(search_queries[k], SeniorityValue[requirements.seniority])
               /\ HasSkillPhrase(search_queries[k], requirements.skills)

(***************************************************************************)
(* Skills of the extracted requirements                                     *)
(***************************************************************************)
MatchedKeywords(request) ==
    {i \in 1..Len(tech_keywords) : Contains(Lower(request), tech_keywords[i].key)}

AllLabels == UNION {Range(tech_keywords[i].skills) : i \in 1..Len(tech_keywords)}

\* C13: a text with none of the technology keywords gives the skills
\* ["Software Development"]; a text with at least one gives the labels of
\* all matched keywords, each once, and not "Software Development".
SkillsAsClaimed ==
    requirements # NoRequirements =>
        IF MatchedKeywords(text) = {}
        THEN requirements.skills = {"Software Development"}
        ELSE /\ "Software Development" \notin requirements.skills
             /\ \A label \in AllLabels \cup requirements.skills :
                    label \in requirements.skills
                        <=> \E i \in MatchedKeywords(text) :
                                label \in Range(tech_keywords[i].skills)

\* a request naming React and MERN has been decomposed: the labels of both
\* keywords are in, the shared label "React" once
SkillsAsClaimedWitness ==
    /\ text = <<"R","e","a","c","t"," ","m","e","r","n">>
    /\ requirements # NoRequirements
    /\ {"ReactJS", "MERN", "React", "Node"} \subseteq requirements.skills
    /\ Cardinality(requirements.skills) = 7

(***************************************************************************)
(* Scorer scenarios                                                         *)
(***************************************************************************)
IsScenarioProfile(p) ==
    /\ Len(p.skills) = 7
    /\ Contains(p.url, UpworkDomain) \/ Contains(p.url, LinkedinDomain)
    /\ p.rating = <<"5","/","5">>
    /\ p.experience = <<"9"," ","y","e","a","r","s">>

\* C16: 7 matched skills, a verified-platform URL, rating "5/5" and
\* experience "9 years" give the risk score 1 from both scorers.
ScenarioScoresOne ==
    IsScenarioProfile(profile) =>
        /\ "chatbot" \in risk.scored => risk.chatbot = 1
        /\ "standalone" \in risk.scored => risk.standalone = 1

\* the scenario profile has been scored by both scorers
ScenarioScoresOneWitness ==
    /\ IsScenarioProfile(profile)
    /\ risk.scored = {"chatbot", "standalone"}
    /\ risk.chatbot = 1
    /\ risk.standalone = 1

\* profiles extract_developer_info can return: its experience default is
\* "Unknown" and its rating default 'Not specified'
FromDeveloperInfo(p) ==
    /\ p.experience # NotSpecified
    /\ p.rating # Unknown
    /\ p.skills = SelectSeq(standalone_skills, LAMBDA skill : skill \in Range(p.skills))

\* C17: in the standalone pipeline a profile whose experience or rating still
\* holds its not-specified sentinel gets the +0.5 adjustment, once.
MissingInformationAdjusted ==
    ("standalone" \in risk.scored /\ FromDeveloperInfo(profile)) =>
        risk.standalone_raw =
            StandaloneBaseHalves(profile)
                + (IF profile.experience = Unknown \/ profile.rating = NotSpecified
                   THEN 1 ELSE 0)

\* the integer n is one of the integers nearest to the raw score of h halves
\* clamped to [1,5]
NearestToClamped(n, h) ==
    LET c == Max(2, Min(10, h))
    IN  2 * n - c \in {-1, 0, 1}

\* the raw chatbot score of the profile, in halves
ChatbotRaw ==
    ChatbotRawHalves(profile.skills, profile.url, profile.rating, profile.experience)

\* C26: on a raw score ending in .5 the chatbot scorer truncates (3.5 gives
\* 3, 2.5 gives 2, 1.5 gives 1) and the standalone scorer rounds half to
\* even (3.5 gives 4, 2.5 gives 2, 4.5 gives 4), both before clamping; each
\* result is one of the integers nearest to the clamped raw score.
ScorersRoundDifferently ==
    /\ "chatbot" \in risk.scored =>
           /\ (ChatbotRaw = 7 => risk.chatbot = 3)
           /\ (ChatbotRaw = 5 => risk.chatbot = 2)
           /\ (ChatbotRaw = 3 => risk.chatbot = 1)
           /\ (ChatbotRaw % 2 = 1 => risk.chatbot = Max(1, Min(5, (ChatbotRaw - 1) \div 2)))
           /\ (ChatbotRaw % 2 = 0 => risk.chatbot = Max(1, Min(5, ChatbotRaw \div 2)))
           /\ NearestToClamped(risk.chatbot, ChatbotRaw)
    /\ "standalone" \in risk.scored =>
           /\ (risk.standalone_raw = 9 => risk.standalone = 4)
           /\ (risk.standalone_raw = 7 => risk.standalone = 4)
           /\ (risk.standalone_raw = 5 => risk.standalone = 2)
           /\ (risk.standalone_raw = 3 => risk.standalone = 2)
           /\ (risk.standalone_raw = 1 => risk.standalone = 1)
           /\ (risk.standalone_raw % 2 = 0 =>
                   risk.standalone = Max(1, Min(5, risk.standalone_raw \div 2)))
           /\ NearestToClamped(risk.standalone, risk.standalone_raw)

\* a profile whose raw score is 3.5 in both scorers has got 3 from the
\* chatbot scorer and 4 from the standalone scorer
ScorersRoundDifferentlyWitness ==
    /\ risk.scored = {"chatbot", "standalone"}
    /\ ChatbotRaw = 7
    /\ risk.standalone_raw = 7
    /\ risk.chatbot = 3
    /\ risk.standalone = 4

(***************************************************************************)
(* final_recommendation_agent on lists of evaluated developers              *)
(***************************************************************************)
MaxDevelopers == 6      \* longest list of evaluated developers

\* results that evaluate to risk 3 with 1 skill, to risk 4 with no skill and
\* to risk 3 with 2 skills
PoolDocuments ==
    Documents \cup
    { [title |-> <<"L","e","e"," ","P","o","e"," ","|"," ","D","e","v">>, url |-> <<"h","t","t","p","s",":","/","/","g","i","t","h","u","b",".","c","o","m","/","l","e","e">>,
       content |-> <<"R","e","a","c","t"," ","N","o","d","e",","," ","5"," ","y","e","a","r","s"," ","e","x","p",","," ","4",".","5"," ","s","t","a","r","s">>] }

DeveloperPool == {EvaluateResult(d, 0) : d \in PoolDocuments}

DeveloperLists ==
    UNION {{[i \in 1..n |-> [f[i] EXCEPT !.id = i]] : f \in [1..n -> DeveloperPool]} :
               n \in 0..MaxDevelopers}

InitRecommend ==
    /\ evaluated_developers \in DeveloperLists
    /\ current_step = "risk_assessment_complete"
    /\ raw_search_results = <<>>
    /\ final_recommendations = <<>>
    /\ profile = NoProfile /\ risk = NotScored
    /\ ServiceIdle
    /\ ReqIdle /\ RankIdle /\ ExecIdle /\ ChatIdle

NextRecommend == Recommend

SpecRecommend == InitRecommend /\ [][NextRecommend]_vars

\* a stands before b: lower risk score, then more skills, then input order
Precedes(a, b) ==
    \/ a.risk_score < b.risk_score
    \/ a.risk_score = b.risk_score /\ Len(a.skills) > Len(b.skills)
    \/ a.risk_score = b.risk_score /\ Len(a.skills) = Len(b.skills) /\ a.id < b.id

RecommendedIds == {final_recommendations[i].id : i \in 1..Len(final_recommendations)}

\* C18: the recommendations are the evaluated developers by risk score
\* ascending, then skill count descending, equal ones in input order, cut to
\* the first 5.
RecommendOrdered ==
    current_step \in {"recommendations_complete", "final_recommendation_complete"} =>
        /\ Len(final_recommendations) = Min(5, Len(evaluated_developers))
        /\ \A i \in 1..Len(final_recommendations) :
               /\ final_recommendations[i].id \in 1..Len(evaluated_developers)
               /\ final_recommendations[i] = evaluated_developers[final_recommendations[i].id]
        /\ \A i, j \in 1..Len(final_recommendations) :
               i < j => Precedes(final_recommendations[i], final_recommendations[j])
        /\ \A i \in 1..Len(final_recommendations) :
               \A k \in 1..Len(evaluated_developers) :
                   k \notin RecommendedIds
                       => Precedes(final_recommendations[i], evaluated_developers[k])

\* six developers, two of them equal on both keys and two equal on the risk
\* score only, have been cut to five
RecommendOrderedWitness ==
    /\ current_step = "recommendations_complete"
    /\ Len(evaluated_developers) = 6
    /\ Len(final_recommendations) = 5
    /\ \E i, j \in 1..5 :
           /\ i < j
           /\ final_recommendations[i].risk_score = final_recommendations[j].risk_score
           /\ Len(final_recommendations[i].skills) > Len(final_recommendations[j].skills)
           /\ final_recommendations[i].id > final_recommendations[j].id
    /\ \E i, j \in 1..5 :
           /\ i < j
           /\ final_recommendations[i].risk_score = final_recommendations[j].risk_score
           /\ Len(final_recommendations[i].skills) = Len(final_recommendations[j].skills)

(***************************************************************************)
(* One chat() request for more candidates than the template enumerates     *)
(***************************************************************************)
BulkMessages == { <<"f","i","n","d"," ","6"," ","d","e","v","s">> }

\* the provider raises or answers every query with the two documents
BulkProviderResults ==
    { <<CHOOSE d \in Documents : Len(d.content) = 0,
        CHOOSE d \in Documents : Len(d.content) > 0>> }

InitBulk ==
    /\ ChatIdle
    /\ ScoreIdle /\ ReqIdle /\ RankIdle /\ ExecIdle

BulkChatStep ==
    /\ \/ \E message \in BulkMessages : ChatStart(message)
       \/ \E outcome \in IntentOutcomes : IntentGeneral(outcome)
       \/ \E outcome \in IntentOutcomes : IntentRaises(outcome)
       \/ /\ chat_pc = "intent"
          /\ \E outcome \in IntentOutcomes :
                 \E order \in SkillOrders(decompose_requirements(user_message).skills) :
                     IntentTalent(outcome, order)
       \/ \E outcome \in IntentOutcomes : IntentTalentFault(outcome)
       \/ SearchDone
       \/ \E ok \in BOOLEAN : FormatReturn(ok)
       \/ \E ok \in BOOLEAN : GeneralReturn(ok)
    /\ UNCHANGED scoreVars

BulkExecStep ==
    /\ \/ SearchFails("raise")
       \/ \E results \in BulkProviderResults : SearchSucceeds(results)
       \/ SleepDone
       \/ ExecReturn
    /\ UNCHANGED <<scoreVars, reqVars, rankVars, chatVars>>

NextBulk == BulkChatStep \/ BulkExecStep

SpecBulk == InitBulk /\ [][NextBulk]_vars

\* C20: when the formatting call fails for a non-empty candidate list the
\* reply is the template: one entry per candidate of the final list, with
\* name, skills, experience, risk and URL, and the count it states is the
\* number of its entries.
TemplateListsEveryCandidate ==
    (chat_pc = "done" /\ response.message.kind = "template") =>
        /\ response.talent_results # <<>>
        /\ response.message.count = Len(response.message.entries)
        /\ Len(response.message.entries) = Len(response.talent_results)
        /\ \A i \in 1..Len(response.message.entries) :
               /\ i <= Len(response.talent_results)
               /\ response.message.entries[i].name = response.talent_results[i].title
               /\ response.message.entries[i].experience
                      = response.talent_results[i].experience_years
               /\ response.message.entries[i].risk = response.talent_results[i].risk_score
               /\ response.message.entries[i].url = response.talent_results[i].profile_url

(***************************************************************************)
(* Two chat requests and a reset on one chatbot, in every interleaving      *)
(***************************************************************************)
SessionMessages == { <<"f","i","n","d"," ","d","e","v","s">>, <<"h","i"," ","t","h","e","r","e">> }

SessionIds == {"default", "user123"}

\* the history of a fresh chatbot, and one of nine entries left by earlier
\* general chats, the last of which got no reply
SessionHistories ==
    { <<>>,
      [i \in 1..9 |-> IF i % 2 = 1 THEN UserEntry(<<"h","e","l","l","o">>)
                      ELSE AssistantEntry([kind |-> "llm"])] }

InitSession ==
    /\ SessionIdle
    /\ conversation_history \in SessionHistories
    /\ chat_pc = "idle"
    /\ user_message = <<>>
    /\ search_intent = NoIntent
    /\ talent_results = <<>>
    /\ response = NoResponse
    /\ SimplifierIdle
    /\ profile = NoProfile /\ risk = NotScored /\ StandaloneIdle
    /\ ReqIdle /\ RankIdle /\ ExecIdle

NextSession ==
    \/ \E r \in ResetRequests : \E session_id \in SessionIds : CallReset(r, session_id)
    \/ \E r \in ChatRequests :
        \/ \E message \in SessionMessages : CallChat(r, message)
        \/ \E outcome \in IntentOutcomes : CallIntentGeneral(r, outcome)
        \/ \E outcome \in IntentOutcomes : CallIntentRaises(r, outcome)
        \/ \E outcome \in IntentOutcomes : CallIntentTalent(r, outcome)
        \/ \E results \in ChatProviderResults : CallSearchReturn(r, results)
        \/ CallSearchFault(r)
        \/ \E ok \in BOOLEAN : CallFormatReturn(r, ok)
        \/ \E ok \in BOOLEAN : CallGeneralReturn(r, ok)

SpecSession == InitSession /\ [][NextSession]_vars

IsPrefix(a, b) == Len(a) <= Len(b) /\ SubSeq(b, 1, Len(a)) = a

\* this step is the reset request r
ResetStep(r) == calls[r].pc = "idle" /\ calls'[r].op = "reset"

\* C22: a step that is no reset leaves the old history as a prefix of the
\* new one; a reset leaves the history empty, so that the summary reads 'No
\* conversation history yet.', and answers success whatever the session_id.
HistoryAppendOnly ==
    [][/\ (\A r \in ApiRequests : ~ResetStep(r)) =>
              IsPrefix(conversation_history, conversation_history')
       /\ \A r \in ApiRequests :
              ResetStep(r) =>
                  /\ conversation_history' = <<>>
                  /\ get_conversation_summary(conversation_history').kind = "no_history_yet"
                  /\ calls'[r].pc = "done"
                  /\ calls'[r].reply.success
                  /\ calls'[r].reply.session_id \in SessionIds]_vars

\* the nine-entry history was reset and a chat request has since been
\* answered and logged
HistoryAppendOnlyWitness ==
    \E r, d \in ApiRequests :
        /\ calls[r].op = "reset" /\ calls[r].reply.session_id = "user123"
        /\ calls[d].op = "chat" /\ calls[d].pc = "done"
        /\ calls[d].reply.conversation_context = "general_chat"
        /\ \A e \in ApiRequests \ {r, d} : calls[e].pc = "idle"
        /\ conversation_history =
               <<UserEntry(<<"h","i"," ","t","h","e","r","e">>), AssistantEntry([kind |-> "llm"])>>

\* the chat request d has appended its user message, has not returned, and
\* no reset has run since
InFlight(d) ==
    /\ calls[d].op = "chat"
    /\ calls[d].pc \notin {"idle", "done"}
    /\ ~calls[d].reset_seen

\* C23: two chat requests in flight together have their user messages next
\* to each other at the end of the history, neither followed by its reply,
\* and the context a request builds for the completion call holds the user
\* message of the other request in flight.
ContextSharesHistory ==
    /\ [](\A r, d \in ChatRequests :
             (r # d /\ InFlight(r) /\ InFlight(d)) =>
                 /\ Len(conversation_history) >= 2
                 /\ {conversation_history[Len(conversation_history) - 1],
                     conversation_history[Len(conversation_history)]}
                        = {UserEntry(calls[r].message), UserEntry(calls[d].message)})
    /\ [][\A r, d \in ChatRequests :
             (/\ r # d
              /\ calls[r].pc = "intent" /\ calls'[r].pc = "general"
              /\ InFlight(d)) =>
                 \E i \in 1..Len(calls'[r].context) :
                     calls'[r].context[i] = UserEntry(calls[d].message)]_vars

\* "find devs" and "hi there" are in flight together and the context of the
\* first holds the message of the second
ContextSharesHistoryWitness ==
    /\ calls["c1"].pc = "general" /\ calls["c1"].message = <<"f","i","n","d"," ","d","e","v","s">>
    /\ calls["c2"].pc = "intent" /\ calls["c2"].message = <<"h","i"," ","t","h","e","r","e">>
    /\ Len(conversation_history) = 11
    /\ conversation_history[10] = UserEntry(<<"f","i","n","d"," ","d","e","v","s">>)
    /\ conversation_history[11] = UserEntry(<<"h","i"," ","t","h","e","r","e">>)
    /\ Len(calls["c1"].context) = 10
    /\ calls["c1"].context[10] = UserEntry(<<"h","i"," ","t","h","e","r","e">>)
    /\ calls["c1"].context[1] = conversation_history[2]

\* this step is the return of chat request r with its reply logged
RepliesNow(r) ==
    /\ calls[r].op = "chat" /\ calls[r].pc \notin {"idle", "done"}
    /\ calls'[r].pc = "done"
    /\ calls'[r].reply.conversation_context \in {"general_chat", "talent_search_completed"}

Started(r) == calls[r].op = "chat"

Replied(r) ==
    /\ calls[r].op = "chat" /\ calls[r].pc = "done"
    /\ calls[r].reply.conversation_context \in {"general_chat", "talent_search_completed"}

CountRole(history, role) == Cardinality({i \in 1..Len(history) : history[i].role = role})

\* C30: a reset that runs between the user message and the reply of the
\* only chat request leaves, once the request has returned, a history that
\* is not empty and holds an assistant message with no user message before
\* it; with no reset the history has grown by one user message for every
\* chat request started and by one assistant message for every request that
\* logged a reply, at most one for each.
ResetOrphansReply ==
    /\ [][\A r \in ChatRequests :
             (/\ RepliesNow(r)
              /\ calls[r].reset_seen
              /\ \A d \in ChatRequests \ {r} : calls[d].op # "chat") =>
                 /\ conversation_history' # <<>>
                 /\ \E i \in 1..Len(conversation_history') :
                        /\ conversation_history'[i].role = "assistant"
                        /\ \A j \in 1..(i - 1) : conversation_history'[j].role # "user"]_vars
    /\ []((\A x \in ResetRequests : calls[x].op # "reset") =>
             \E h \in SessionHistories :
                 /\ IsPrefix(h, conversation_history)
                 /\ CountRole(conversation_history, "user") =
                        CountRole(h, "user")
                            + Cardinality({r \in ChatRequests : Started(r)})
                 /\ CountRole(conversation_history, "assistant") =
                        CountRole(h, "assistant")
                            + Cardinality({r \in ChatRequests : Replied(r)}))

\* the only chat request was reset in flight and has logged its reply, which
\* is all the history holds
ResetOrphansReplyWitness ==
    /\ calls["c1"].op = "chat" /\ calls["c1"].pc = "done"
    /\ calls["c1"].reply.conversation_context = "talent_search_completed"
    /\ calls["c2"].op = "none"
    /\ calls["x1"].op = "reset"
    /\ conversation_history = <<AssistantEntry(NoCandidatesMessage)>>

(***************************************************************************)
(* Two request slots of the simplifier, in every interleaving               *)
(***************************************************************************)
ExplainTerms == { <<"A","P","I">>, <<" ","a","p","i"," ">>, <<" "," ">>, <<"R","e","s","t">> }

SimplifyTerms == { <<"A","P","I">>, <<" ","a","p","i"," ">> }

\* message.content of the provider's answer
ProviderContents == { <<"a"," ","w","a","i","t","e","r">>, <<" ","a"," ","m","e","n","u"," ">> }

InitCache ==
    /\ SimplifierIdle
    /\ SessionIdle
    /\ profile = NoProfile /\ risk = NotScored /\ StandaloneIdle
    /\ ReqIdle /\ RankIdle /\ ExecIdle /\ ChatIdle

NextCache ==
    \E q \in SimplifierRequests :
        \/ \E raw_term \in ExplainTerms : ExplainArrives(q, raw_term)
        \/ \E content \in ProviderContents : ExplainReturns(q, content)
        \/ ExplainFails(q)
        \/ CacheStats(q)
        \/ ClearCache(q)
        \/ \E raw_term \in SimplifyTerms : SimplifyArrives(q, raw_term)
        \/ \E content \in ProviderContents : SimplifyReturns(q, content)
        \/ SimplifyFails(q)
        \/ ServiceClear(q)
        \/ Delivered(q)

SpecCache == InitCache /\ [][NextCache]_vars

\* this step is the arrival of a request of kind op in slot q
ArrivesNow(q, op) ==
    /\ SlotFree(q)
    /\ requests'[q].op = op

\* this step is the return of the awaited provider call of slot q
ReturnsNow(q, op) ==
    /\ requests[q].op = op /\ requests[q].pc = "awaiting"
    /\ requests'[q].pc = "done"

\* the items of a cache stored for a term equal to this one after trimming
\* and lower-casing
StoredFor(cache, term) ==
    {i \in 1..Len(cache) : Lower(Strip(cache[i].key)) = Lower(Strip(term))}

\* a request for a stored term is answered from the cache, without a
\* provider call and without a write
StoredTermIsHit ==
    \A q \in SimplifierRequests :
        /\ (ArrivesNow(q, "explain") /\ StoredFor(explanation_cache, requests'[q].term) # {}) =>
               /\ requests'[q].pc = "done"
               /\ requests'[q].reply.kind = "explanation"
               /\ requests'[q].reply.cached
               /\ \A i \in StoredFor(explanation_cache, requests'[q].term) :
                      requests'[q].reply.explanation = explanation_cache[i].value
               /\ explanation_cache' = explanation_cache
        /\ (ArrivesNow(q, "simplify") /\ StoredFor(service_cache, requests'[q].term) # {}) =>
               /\ requests'[q].pc = "done"
               /\ \A i \in StoredFor(service_cache, requests'[q].term) :
                      requests'[q].reply = [kind |-> "text", text |-> service_cache[i].value]
               /\ service_cache' = service_cache

\* the value cached under a key is the one the last completed request wrote
LastWriterWins ==
    \A q \in SimplifierRequests :
        /\ (ReturnsNow(q, "explain") /\ requests'[q].reply.kind = "explanation") =>
               /\ StoredFor(explanation_cache', requests[q].term) # {}
               /\ \A i \in StoredFor(explanation_cache', requests[q].term) :
                      explanation_cache'[i].value = requests'[q].reply.explanation
        /\ (ReturnsNow(q, "simplify") /\ requests'[q].reply.kind = "text") =>
               /\ StoredFor(service_cache', requests[q].term) # {}
               /\ \A i \in StoredFor(service_cache', requests[q].term) :
                      service_cache'[i].value = requests'[q].reply.text

\* the item i of the old cache is in the new cache with the same value
Kept(cache, new_cache, i) ==
    \E j \in 1..Len(new_cache) : new_cache[j] = cache[i]

\* the item i of the old cache has been overwritten by the value that the
\* request returning in this step got for the same key
Overwritten(cache, new_cache, i, op) ==
    \E q \in SimplifierRequests :
        /\ ReturnsNow(q, op)
        /\ i \in StoredFor(cache, requests[q].term)
        /\ \E j \in 1..Len(new_cache) :
               /\ new_cache[j].key = cache[i].key
               /\ new_cache[j].value \in {Strip(c) : c \in ProviderContents}

\* C24 as stated: a stored term is answered from the cache; no step other
\* than a clear_cache removes or changes an entry; the value cached after a
\* race is the one written last.
CacheEntriesStable ==
    [][/\ StoredTermIsHit
       /\ LastWriterWins
       /\ (\A q \in SimplifierRequests : ~ArrivesNow(q, "clear")) =>
              \A i \in 1..Len(explanation_cache) :
                  Kept(explanation_cache, explanation_cache', i)
       /\ (\A q \in SimplifierRequests : ~ArrivesNow(q, "service_clear")) =>
              \A i \in 1..Len(service_cache) :
                  Kept(service_cache, service_cache', i)]_vars

\* C24 amended: a stored term is answered from the cache; no step other
\* than a clear_cache removes an entry, and an entry changes only when a
\* request for its key that had missed the cache returns and overwrites it;
\* the value cached after a race is the one written last.
CacheEntriesOverwrittenOnlyByRace ==
    [][/\ StoredTermIsHit
       /\ LastWriterWins
       /\ (\A q \in SimplifierRequests : ~ArrivesNow(q, "clear")) =>
              \A i \in 1..Len(explanation_cache) :
                  \/ Kept(explanation_cache, explanation_cache', i)
                  \/ Overwritten(explanation_cache, explanation_cache', i, "explain")
       /\ (\A q \in SimplifierRequests : ~ArrivesNow(q, "service_clear")) =>
              \A i \in 1..Len(service_cache) :
                  \/ Kept(service_cache, service_cache', i)
                  \/ Overwritten(service_cache, service_cache', i, "simplify")]_vars

\* both requests for "api" missed; the one answered with "a menu" returned
\* last and its explanation is the one cached
CacheRaceWitness ==
    /\ requests["q1"].op = "explain" /\ requests["q1"].pc = "done"
    /\ requests["q1"].reply = [kind |-> "explanation", term |-> <<"A","P","I">>,
                               explanation |-> <<"a"," ","w","a","i","t","e","r">>, cached |-> FALSE]
    /\ requests["q2"].op = "explain" /\ requests["q2"].pc = "done"
    /\ requests["q2"].reply = [kind |-> "explanation", term |-> <<"a","p","i">>,
                               explanation |-> <<"a"," ","m","e","n","u">>, cached |-> FALSE]
    /\ explanation_cache = <<[key |-> <<"a","p","i">>, value |-> <<"a"," ","m","e","n","u">>]>>

StatsConsistent(stats) == stats.total_cached_terms = Len(stats.cached_terms)

\* C25: a clear_cache leaves the cache empty, so that the stats report no
\* term, answers 'success' and reports as removed the number of terms that
\* were cached when it ran; the stats always report as many terms as they
\* list.
ClearEmptiesAndCounts ==
    /\ [][\A q \in SimplifierRequests :
              /\ ArrivesNow(q, "clear") =>
                     /\ explanation_cache' = <<>>
                     /\ get_cache_stats(explanation_cache') =
                            [total_cached_terms |-> 0, cached_terms |-> <<>>]
                     /\ requests'[q].reply.status = "success"
                     /\ requests'[q].reply.removed = Len(explanation_cache)
              /\ ArrivesNow(q, "service_clear") =>
                     /\ service_cache' = <<>>
                     /\ requests'[q].reply.removed = Len(service_cache)]_vars
    /\ [](/\ StatsConsistent(get_cache_stats(explanation_cache))
          /\ \A q \in SimplifierRequests :
                 requests[q].op = "stats" => StatsConsistent(requests[q].reply.stats))

\* two terms were cached; the clear has reported two removed and the stats
\* asked for afterwards list nothing
ClearEmptiesAndCountsWitness ==
    /\ requests["q1"].op = "clear"
    /\ requests["q1"].reply.removed = 2
    /\ requests["q2"].op = "stats"
    /\ requests["q2"].reply.stats = [total_cached_terms |-> 0, cached_terms |-> <<>>]
    /\ explanation_cache = <<>>

\* C28: an empty or blank term is answered 400 with no provider call and no
\* write; a failed provider call is answered 500 by the API and with the
\* apology by the service, with no write; a request for a term that is not
\* stored, as after a failure, calls the provider.
FailureLeavesCache ==
    [][\A q \in SimplifierRequests :
           /\ (ArrivesNow(q, "explain") /\ requests'[q].term = <<>>) =>
                  /\ requests'[q].pc = "done"
                  /\ requests'[q].reply = [kind |-> "error", status |-> 400]
                  /\ explanation_cache' = explanation_cache
           /\ (ReturnsNow(q, "explain") /\ requests'[q].reply.kind # "explanation") =>
                  /\ requests'[q].reply = [kind |-> "error", status |-> 500]
                  /\ explanation_cache' = explanation_cache
           /\ (ReturnsNow(q, "simplify") /\ requests'[q].reply.kind # "text") =>
                  /\ requests'[q].reply = ApologyText
                  /\ service_cache' = service_cache
           /\ (/\ ArrivesNow(q, "explain")
               /\ requests'[q].term # <<>>
               /\ StoredFor(explanation_cache, requests'[q].term) = {}) =>
                  requests'[q].pc = "awaiting"
           /\ (/\ ArrivesNow(q, "simplify")
               /\ StoredFor(service_cache, requests'[q].term) = {}) =>
                  requests'[q].pc = "awaiting"
           /\ (ArrivesNow(q, "explain") \/ ArrivesNow(q, "simplify")) =>
                  /\ explanation_cache' = explanation_cache
                  /\ service_cache' = service_cache]_vars

\* the request for "API" got 500, the service request got the apology, and
\* neither cache holds an entry
FailureLeavesCacheWitness ==
    /\ requests["q1"].op = "explain" /\ requests["q1"].term = <<"A","P","I">>
    /\ requests["q1"].reply = [kind |-> "error", status |-> 500]
    /\ requests["q2"].op = "simplify" /\ requests["q2"].reply = ApologyText
    /\ explanation_cache = <<>>
    /\ service_cache = <<>>
====
